---- MODULE Spec2Model ----
(***************************************************************************)
(* Model of the bilaterally-weighted-patch stereo matcher                  *)
(* (src/disparity.cpp, second listing, lines 238-461; src/main.cpp, second *)
(* listing, lines 167-347; src/image.cpp).                                 *)
(*                                                                         *)
(* Numbers.  The program computes in 32-bit floats.  Here a float v is the *)
(* integer v*Scale: a fixed-point number with PrecBits fractional bits.    *)
(* Products and quotients are rounded to the nearest representable value   *)
(* (RoundMul, RoundDiv); sums are exact.  0/0 gives NaN, which loses every *)
(* comparison, as in IEEE arithmetic.                                      *)
(*                                                                         *)
(* Images are single-channel (Image::channels() = 1) with integer pixel    *)
(* values 0..MaxPix; im[y][x] is Image::operator()(x,y).                    *)
(*                                                                         *)
(* Uninitialised memory.  Image(w,h) allocates with new float[] and does   *)
(* not clear it.  A window entry that was never written holds Uninit; a    *)
(* read of it yields the content the storage had when the windows of the   *)
(* row were allocated (heap), which is any value of Garbage.               *)
(***************************************************************************)
EXTENDS Integers, Sequences, FiniteSets, TLC

VARIABLES
    im1, im2,       \* the two input images (main.cpp:282-283)
    dMin, dMax,     \* disparity range (main.cpp:291)
    radius,         \* ParamDisparity::radius
    comb,           \* the COMB_WEIGHTS variant compiled in
    tol,            \* ParamOcclusion::tol_disp
    paramD,         \* ParamDisparity: tauCol, tauGrad, alpha
    stage,          \* position of main / disparityAW
    cost,           \* cost volume, cost[d][y][x]
    E1, E2,         \* WTA energies  (disparity.cpp:415)
    disp1, disp2,   \* disparity maps (main.cpp:303-306)
    pc,             \* pc[y]: position of the worker of row y
    xs, ds,         \* xs[y], ds[y]: loop counters x and d of row y
    W1,             \* W1[y]: reference window of row y
    weights2,       \* weights2[y]: ring of target windows of row y
    built,          \* built[y]: the support() calls on im2 made for row y so far
    heap,           \* heap[y]: content of the storage row y allocated
    argv,           \* command line of main: dMin, dMax and the -O option
    cmd,            \* CmdLine::process: argv, argc, i and the used flags
    sense,          \* ParamOcclusion sense (main.cpp:332)
    dispDense,      \* the map of main.cpp:331
    files,          \* the output files written so far, in order
    exitCode,       \* value returned by main, once stage is "exit"
    handles,        \* the Image objects of a program (image.h)
    bufs,           \* the pixel arrays and counters they allocated
    last,           \* the last operation done on an Image
    tif,            \* tiff2png: the input image and the options
    png             \* tiff2png: the pixels written

vars == <<im1, im2, dMin, dMax, radius, comb, tol, paramD, stage, cost, E1, E2,
          disp1, disp2, pc, xs, ds, W1, weights2, heap, built,
          argv, cmd, sense, dispDense, files, exitCode,
          handles, bufs, last, tif, png>>

\* the state of the Image class on its own and of tiff2png
Elsewhere == <<handles, bufs, last, tif, png>>

\* the state of main around the call of disparityAW
MainVars == <<argv, cmd, sense, dispDense, files, exitCode, Elsewhere>>

----------------------------------------------------------------------------
(* Bounds of the model *)

MaxShape == 2      \* image sizes are the first MaxShape entries of Shapes
MaxPix == 1        \* pixel values 0..MaxPix (stands for 0..255)
MaxCode == 7       \* image pairs are the base-(MaxPix+1) numerals 0..MaxCode
MaxDisp == 2       \* dMin, dMax in -MaxDisp..MaxDisp
MaxRadius == 1     \* radius in 0..MaxRadius
PrecBits == 2      \* fractional bits kept by the arithmetic
MaxTol == 1        \* tol_disp in 0..MaxTol
MaxOccCode == 255  \* pairs of maps given to the filter: numerals 0..MaxOccCode

----------------------------------------------------------------------------
(* Arithmetic *)

Scale == 2 ^ PrecBits
One == Scale

\* numeric_limits<float>::max()
FltMax == 1000000
\* the value of 0/0; compares false with everything
NaN == -1
\* content of a window entry that was never written
Uninit == -2

Abs(a) == IF a < 0 THEN -a ELSE a
Min2(a, b) == IF b < a THEN b ELSE a
Max2(a, b) == IF a < b THEN b ELSE a

\* a*b for fixed-point a,b >= 0, rounded to nearest
RoundMul(a, b) == (a * b + Scale \div 2) \div Scale
\* a/b for fixed-point a >= 0, b > 0, rounded to nearest
RoundDiv(a, b) == (a * Scale + b \div 2) \div b

\* faulty variant of Gt: a tie replaces the current winner
Gt_OrEqual(a, b) == a # NaN /\ b # NaN /\ a >= b

\* float comparison a > b
Gt(a, b) == a # NaN /\ b # NaN /\ a > b

\* values a read of uninitialised memory may return
Garbage == {0, One}

----------------------------------------------------------------------------
(* Images *)

Width(im) == Cardinality(DOMAIN im[0])
Height(im) == Cardinality(DOMAIN im)

\* image sizes <<width, height>>, smallest first; gradX needs width >= 2
Shapes == <<<<2, 1>>, <<3, 1>>, <<2, 2>>, <<4, 1>>, <<3, 2>>, <<4, 2>>>>
ShapeIds == 1..Min2(MaxShape, Len(Shapes))

\* digit k of code in base MaxPix+1
Digit(code, k) == (code \div ((MaxPix + 1) ^ k)) % (MaxPix + 1)

\* the pair of w x h images coded by code: the pixels of the second and of
\* the first image, in row-major order, are the even and the odd digits
ImageOf(code, w, h, which) ==
    [y \in 0..h-1 |-> [x \in 0..w-1 |-> Digit(code, 2 * (y * w + x) + which)]]

\* Image::operator()(i,j) const: tab[(j*w+i)*c], also for i outside 0..w-1.
\* The result is a pixel of the buffer when the index falls inside it and
\* Junk (an indeterminate value) when it does not.
Junk == -3
Pixel(im, i, j) ==
    LET idx == j * Width(im) + i
    IN IF 0 <= idx /\ idx < Width(im) * Height(im)
       THEN im[idx \div Width(im)][idx % Width(im)]
       ELSE Junk

\* Image::gradX: central difference inside, one-sided at both ends
gradX(im) ==
    LET w == Width(im)
    IN [y \in DOMAIN im |-> [x \in 0..w-1 |->
        IF x = 0 THEN (im[y][1] - im[y][0]) * Scale
        ELSE IF x = w - 1 THEN (im[y][w-1] - im[y][w-2]) * Scale
        ELSE (im[y][x+1] - im[y][x-1]) * (Scale \div 2)]]

----------------------------------------------------------------------------
(* Parameters: ParamDisparity with tauCol, tauGrad, alpha in fixed point.  *)
(* gammaCol and gammaPos enter only through the two decay factors          *)
(* exp(-1/(c*gammaCol)) and exp(-2/gammaPos), both taken to be 1/2.        *)

Params == [tauCol : {0, One, 2 * One}, tauGrad : {0, One}, alpha : 0..One]
DefaultParam == [tauCol |-> One, tauGrad |-> One, alpha |-> (3 * One) \div 4]
e2 == Scale \div 2
ePos == Scale \div 2

----------------------------------------------------------------------------
(* Cost volume *)

\* faulty variant of costPixel: the two thresholds are not applied
costPixel_Unclipped(i1, i2, gradient1, gradient2, d, param, x, y) ==
    LET width == Width(i1)
        inside == 0 <= x + d /\ x + d < width
        costColor ==
            IF inside THEN Abs(i1[y][x] - i2[y][x+d]) * Scale
            ELSE param.tauCol
        costGradient ==
            IF inside THEN Abs(gradient1[y][x] - gradient2[y][x+d])
            ELSE param.tauGrad
    IN RoundMul(One - param.alpha, costColor)
       + RoundMul(param.alpha, costGradient)

\* costLayer: the value stored in cost(x,y) for disparity d
costPixel(i1, i2, gradient1, gradient2, d, param, x, y) ==
    LET width == Width(i1)
        inside == 0 <= x + d /\ x + d < width
        costColor ==
            IF inside
            THEN Min2(Abs(i1[y][x] - i2[y][x+d]) * Scale, param.tauCol)
            ELSE param.tauCol
        costGradient ==
            IF inside
            THEN Min2(Abs(gradient1[y][x] - gradient2[y][x+d]), param.tauGrad)
            ELSE param.tauGrad
    IN RoundMul(One - param.alpha, costColor)
       + RoundMul(param.alpha, costGradient)

costLayer(i1, i2, gradient1, gradient2, d, param) ==
    [y \in DOMAIN i1 |-> [x \in DOMAIN i1[y] |->
        costPixel(i1, i2, gradient1, gradient2, d, param, x, y)]]

\* costVolume: one layer per disparity; cost[d] is the code's cost[d-dMin]
costVolume(i1, i2, lo, hi, param) ==
    LET grad1 == gradX(i1)
        grad2 == gradX(i2)
    IN [d \in lo..hi |-> costLayer(i1, i2, grad1, grad2, d, param)]

\* the largest value a cost can take: (1-alpha)*tauCol + alpha*tauGrad
costMax(param) ==
    RoundMul(One - param.alpha, param.tauCol)
    + RoundMul(param.alpha, param.tauGrad)

----------------------------------------------------------------------------
(* Kernel tables *)

\* distC[x] = e2*distC[x-1], distC[0] = 1
distC[k \in 0..MaxPix] == IF k = 0 THEN One ELSE RoundMul(e2, distC[k-1])

\* sqrt, rounded up to an integer
CeilSqrt[n \in 0..(2 * (MaxRadius + 1) * (MaxRadius + 1))] ==
    CHOOSE s \in 0..n : s * s >= n /\ (s = 0 \/ (s-1) * (s-1) < n)
\* exp(-2*rho/gammaPos) by repeated rounded multiplication
DecayPos[k \in 0..(2 * (MaxRadius + 1))] ==
    IF k = 0 THEN One ELSE RoundMul(ePos, DecayPos[k-1])
\* distP[(y+r)*(2*r+1)+(x+r)] for the offset (x,y)
distP(x, y) == DecayPos[CeilSqrt[x * x + y * y]]

\* a freshly allocated Image(dim,dim): nothing written yet
NewWindow(r) == [j \in 0..(2*r) |-> [i \in 0..(2*r) |-> Uninit]]

\* the weight support() stores for a pixel of value v around a centre pixel
\* of value centre: distC[static_cast<int>(d)]
supportWeight(v, centre) ==
    IF centre = Junk THEN Junk ELSE distC[Abs(v - centre)]

\* support: the window w after the call
support(im, xp, yp, r, w) ==
    LET width == Width(im)
        height == Height(im)
        centre == Pixel(im, xp, yp)
    IN [j \in 0..(2*r) |-> [i \in 0..(2*r) |->
        LET x == i - r
            y == j - r
        IN IF 0 <= yp + y /\ yp + y < height /\ 0 <= xp + x /\ xp + x < width
           THEN supportWeight(im[yp+y][xp+x], centre)
           ELSE w[j][i]]]

----------------------------------------------------------------------------
(* Aggregated cost *)

Combs == {"LEFT", "MAX", "MIN", "MULT", "PLUS"}

\* faulty variant of COMB_WEIGHTS: LEFT multiplies the two weights
COMB_WEIGHTS_LeftMult(c, w1, w2) ==
    CASE c = "LEFT" -> RoundMul(w1, w2)
      [] c = "MAX"  -> Max2(w1, w2)
      [] c = "MIN"  -> Min2(w1, w2)
      [] c = "MULT" -> RoundMul(w1, w2)
      [] c = "PLUS" -> w1 + w2

\* faulty variant of COMB_WEIGHTS: LEFT keeps the weight of the target
COMB_WEIGHTS_LeftIsRight(c, w1, w2) ==
    CASE c = "LEFT" -> w2
      [] c = "MAX"  -> Max2(w1, w2)
      [] c = "MIN"  -> Min2(w1, w2)
      [] c = "MULT" -> RoundMul(w1, w2)
      [] c = "PLUS" -> w1 + w2

COMB_WEIGHTS(c, w1, w2) ==
    CASE c = "LEFT" -> w1
      [] c = "MAX"  -> Max2(w1, w2)
      [] c = "MIN"  -> Min2(w1, w2)
      [] c = "MULT" -> RoundMul(w1, w2)
      [] c = "PLUS" -> w1 + w2

\* the value read from a window entry; g is what indeterminate memory yields
Read(v, g) == IF v < 0 THEN g ELSE v

\* the term comb of costCombined at window offset (x,y)
combAt(c, wp, wq, r, g, x, y) ==
    RoundMul(distP(x, y),
             COMB_WEIGHTS(c, Read(wp[y+r][x+r], g), Read(wq[y+r][x+r], g)))

\* costCombined: num/den over the offsets (x,y) of the window, row by row,
\* that pass the tests of lines 366 and 368
costCombined(c, xp, xq, yp, r, wp, wq, e, g) ==
    LET dim == 2 * r + 1
        width == Width(e)
        height == Height(e)
        RECURSIVE Loop(_, _, _)
        Loop(k, num, den) ==
            IF k = dim * dim THEN IF den = 0 THEN NaN ELSE RoundDiv(num, den)
            ELSE LET x == (k % dim) - r
                     y == (k \div dim) - r
                 IN IF /\ 0 <= yp + y /\ yp + y < height
                       /\ 0 <= xp + x /\ xp + x < width
                       /\ 0 <= xq + x /\ xq + x < width
                    THEN LET cb == combAt(c, wp, wq, r, g, x, y)
                         IN Loop(k + 1, num + RoundMul(cb, e[yp+y][xp+x]),
                                 den + cb)
                    ELSE Loop(k + 1, num, den)
    IN Loop(0, 0, 0)

----------------------------------------------------------------------------
(* disparityAW, one worker per row *)

Rows == DOMAIN im1
Cols == DOMAIN im1[0]

\* number of target windows kept per row
nd == IF comb = "LEFT" THEN 1 ELSE dMax - dMin + 1

\* a W x H image of one colour c
UniformImage(w, h, c) == [y \in 0..h-1 |-> [x \in 0..w-1 |-> c]]

\* a W x H map holding v everywhere (std::fill_n)
Filled(im, v) == [y \in DOMAIN im |-> [x \in DOMAIN im[y] |-> v]]

\* the ring after "new Image[nd]" and the pre-fill loop of row y
prefill(im, y, r, n) ==
    [d \in 0..(n-1) |->
        IF d + 1 < n THEN support(im, d, y, r, NewWindow(r)) ELSE NewWindow(r)]

\* the ring slot used for target centre c
slot(c) == (c - dMin) % nd


\* no Image object is followed and tiff2png is not run
ElsewhereIdle ==
    /\ handles = <<>>
    /\ bufs = <<>>
    /\ last = <<>>
    /\ tif = <<>>
    /\ png = <<>>

\* main is not part of the run: no command line, no file, no exit
MainIdle ==
    /\ argv = <<>>
    /\ cmd = <<>>
    /\ sense = 0
    /\ dispDense = <<>>
    /\ files = <<>>
    /\ exitCode = 0

\* state after E1 and E2 are filled, before the loop over rows
InitAW(i1, i2, lo, hi, r, cb, prm) ==
    /\ im1 = i1
    /\ im2 = i2
    /\ dMin = lo
    /\ dMax = hi
    /\ radius = r
    /\ comb = cb
    /\ tol = 0
    /\ stage = "aggregate"
    /\ paramD = prm
    /\ cost = costVolume(i1, i2, lo, hi, prm)
    /\ E1 = Filled(im1, FltMax)
    /\ E2 = Filled(im1, FltMax)
    /\ disp1 = Filled(im1, lo - 1)
    /\ disp2 = Filled(im1, lo - 1)
    /\ pc = [y \in DOMAIN i1 |-> "start"]
    /\ xs = [y \in DOMAIN i1 |-> 0]
    /\ ds = [y \in DOMAIN i1 |-> lo]
    /\ W1 = [y \in DOMAIN i1 |-> <<>>]
    /\ weights2 = [y \in DOMAIN i1 |-> <<>>]
    /\ heap = [y \in DOMAIN i1 |-> 0]
    /\ built = [y \in DOMAIN i1 |-> <<>>]
    /\ MainIdle
    /\ ElsewhereIdle

Init ==
    \E s \in ShapeIds, code \in 0..MaxCode,
       lo \in -MaxDisp..MaxDisp, hi \in -MaxDisp..MaxDisp,
       r \in 0..MaxRadius, cb \in Combs :
        /\ lo <= hi
        /\ InitAW(ImageOf(code, Shapes[s][1], Shapes[s][2], 1),
                  ImageOf(code, Shapes[s][1], Shapes[s][2], 0),
                  lo, hi, r, cb, DefaultParam)

Inputs == <<im1, im2, dMin, dMax, radius, comb, tol, paramD, stage, cost,
            MainVars>>

\* entry of the loop body for row y: W1, weights2 and the pre-fill
RowStart(y) ==
    /\ stage = "aggregate"
    /\ pc[y] = "start"
    /\ W1' = [W1 EXCEPT ![y] = NewWindow(radius)]
    /\ weights2' = [weights2 EXCEPT ![y] = prefill(im2, y, radius, nd)]
    /\ \E g \in Garbage : heap' = [heap EXCEPT ![y] = g]
    /\ built' = [built EXCEPT ![y] =    \* the support() calls of the pre-fill
                    [k \in 1..(nd - 1) |-> [slot |-> k - 1, centre |-> k - 1]]]
    /\ xs' = [xs EXCEPT ![y] = 0]
    /\ pc' = [pc EXCEPT ![y] = "col"]
    /\ UNCHANGED <<Inputs, E1, E2, disp1, disp2, ds>>

\* rows in order, as without OpenMP
RowStartSeq(y) ==
    /\ \A y2 \in Rows : y2 < y => pc[y2] = "done"
    /\ RowStart(y)

\* top of the loop over x: the two support() calls
ColStart(y) ==
    LET x == xs[y]
        s == slot(x + dMax)
    IN /\ pc[y] = "col"
       /\ W1' = [W1 EXCEPT ![y] = support(im1, x, y, radius, W1[y])]
       /\ weights2' =
            IF comb = "LEFT" THEN weights2
            ELSE [weights2 EXCEPT ![y][s] =
                     support(im2, x + dMax, y, radius, weights2[y][s])]
       /\ ds' = [ds EXCEPT ![y] = dMin]
       /\ pc' = [pc EXCEPT ![y] = "cand"]
       /\ built' = IF comb = "LEFT" THEN built
                   ELSE [built EXCEPT ![y] =
                            Append(@, [slot |-> s, centre |-> x + dMax])]
       /\ UNCHANGED <<Inputs, E1, E2, disp1, disp2, xs, heap>>

\* end of one pass of the loop over d: next d, next x, or end of the row
\* (delete [] weights2, W1 goes out of scope)
Advance(y) ==
    IF ds[y] < dMax
    THEN /\ ds' = [ds EXCEPT ![y] = ds[y] + 1]
         /\ UNCHANGED <<pc, xs, W1, weights2, heap, built>>
    ELSE IF xs[y] + 1 < Width(im1)
    THEN /\ xs' = [xs EXCEPT ![y] = xs[y] + 1]
         /\ pc' = [pc EXCEPT ![y] = "col"]
         /\ UNCHANGED <<ds, W1, weights2, heap, built>>
    ELSE /\ pc' = [pc EXCEPT ![y] = "done"]
         /\ W1' = [W1 EXCEPT ![y] = <<>>]
         /\ weights2' = [weights2 EXCEPT ![y] = <<>>]
         /\ heap' = [heap EXCEPT ![y] = 0]
         /\ UNCHANGED <<xs, ds, built>>

\* faulty variant of WtaE: the last candidate is stored without comparison
WtaE_LastWins(EE, x, y, E) == [EE EXCEPT ![y][x] = E]

\* the winner-take-all update of one energy/disparity pair
WtaE(EE, x, y, E) == IF Gt(EE[y][x], E) THEN [EE EXCEPT ![y][x] = E] ELSE EE
\* faulty variant of WtaD: stores the disparity after the winner
WtaD_Next(EE, dd, x, y, E, v) ==
    IF Gt(EE[y][x], E) THEN [dd EXCEPT ![y][x] = v + 1] ELSE dd
WtaD(EE, dd, x, y, E, v) == IF Gt(EE[y][x], E) THEN [dd EXCEPT ![y][x] = v] ELSE dd

\* faulty variant of CandEval: the target-side result is stored at column x
CandEval_SameColumn(y) ==
    LET x == xs[y]
        d == ds[y]
    IN /\ pc[y] = "cand"
       /\ 0 <= x + d /\ x + d < Width(im1)
       /\ LET E == costCombined(comb, x, x + d, y, radius, W1[y],
                             weights2[y][slot(x + d)], cost[d], heap[y])
          IN /\ E1' = WtaE(E1, x, y, E)
             /\ disp1' = WtaD(E1, disp1, x, y, E, d)
             /\ E2' = WtaE(E2, x, y, E)
             /\ disp2' = WtaD(E2, disp2, x, y, E, -d)
       /\ Advance(y)
       /\ UNCHANGED Inputs

\* faulty variant of CandEval: the target-side result goes to the next row
CandEval_NextRow(y) ==
    LET x == xs[y]
        d == ds[y]
        o == (y + 1) % Height(im1)
    IN /\ pc[y] = "cand"
       /\ 0 <= x + d /\ x + d < Width(im1)
       /\ LET E == costCombined(comb, x, x + d, y, radius, W1[y],
                             weights2[y][slot(x + d)], cost[d], heap[y])
          IN /\ E1' = WtaE(E1, x, y, E)
             /\ disp1' = WtaD(E1, disp1, x, y, E, d)
             /\ E2' = WtaE(E2, x + d, o, E)
             /\ disp2' = WtaD(E2, disp2, x + d, o, E, -d)
       /\ Advance(y)
       /\ UNCHANGED Inputs

\* one candidate d with x+d inside the image
CandEval(y) ==
    LET x == xs[y]
        d == ds[y]
    IN /\ pc[y] = "cand"
       /\ 0 <= x + d /\ x + d < Width(im1)
       /\ LET E == costCombined(comb, x, x + d, y, radius, W1[y],
                             weights2[y][slot(x + d)], cost[d], heap[y])
          IN /\ E1' = WtaE(E1, x, y, E)
             /\ disp1' = WtaD(E1, disp1, x, y, E, d)
             /\ E2' = WtaE(E2, x + d, y, E)
             /\ disp2' = WtaD(E2, disp2, x + d, y, E, -d)
       /\ Advance(y)
       /\ UNCHANGED Inputs

\* one candidate d with x+d outside the image
CandSkip(y) ==
    LET x == xs[y]
        d == ds[y]
    IN /\ pc[y] = "cand"
       /\ ~(0 <= x + d /\ x + d < Width(im1))
       /\ Advance(y)
       /\ UNCHANGED <<Inputs, E1, E2, disp1, disp2>>

Next ==
    \E y \in Rows :
        \/ RowStartSeq(y)
        \/ ColStart(y)
        \/ CandEval(y)
        \/ CandSkip(y)

Spec == Init /\ [][Next]_vars

AllDone == \A y \in Rows : pc[y] = "done"

\* the cost volume alone: costVolume entered with no layer built, for every
\* valid parameter set
InitCost ==
    \E s \in ShapeIds, code \in 0..MaxCode,
       lo \in -MaxDisp..MaxDisp, hi \in -MaxDisp..MaxDisp, prm \in Params :
        /\ lo <= hi
        /\ im1 = ImageOf(code, Shapes[s][1], Shapes[s][2], 1)
        /\ im2 = ImageOf(code, Shapes[s][1], Shapes[s][2], 0)
        /\ dMin = lo
        /\ dMax = hi
        /\ radius = 0
        /\ comb = "MULT"
        /\ tol = 0
        /\ paramD = prm
        /\ stage = "cost"
        /\ cost = <<>>
        /\ E1 = <<>>
        /\ E2 = <<>>
        /\ disp1 = Filled(im1, lo - 1)
        /\ disp2 = Filled(im1, lo - 1)
        /\ pc = [y \in DOMAIN im1 |-> "start"]
        /\ xs = [y \in DOMAIN im1 |-> 0]
        /\ ds = [y \in DOMAIN im1 |-> lo]
        /\ W1 = [y \in DOMAIN im1 |-> <<>>]
        /\ weights2 = [y \in DOMAIN im1 |-> <<>>]
        /\ heap = [y \in DOMAIN im1 |-> 0]
        /\ built = [y \in DOMAIN im1 |-> <<>>]
        /\ MainIdle
        /\ ElsewhereIdle

\* one pass of the loop of costVolume: the layer of the next disparity
CostLayerStep ==
    LET d == dMin + Cardinality(DOMAIN cost)
    IN /\ stage = "cost"
       /\ d <= dMax
       /\ cost' = [k \in dMin..d |->
                    IF k = d
                    THEN costLayer(im1, im2, gradX(im1), gradX(im2), d, paramD)
                    ELSE cost[k]]
       /\ UNCHANGED <<im1, im2, dMin, dMax, radius, comb, tol, paramD, stage,
                      E1, E2, disp1, disp2, pc, xs, ds, W1, weights2, heap, built,
                   MainVars>>

\* the cost volume is complete: E1 and E2 are filled and the rows start
CostDone ==
    /\ stage = "cost"
    /\ DOMAIN cost = dMin..dMax
    /\ stage' = "aggregate"
    /\ E1' = Filled(im1, FltMax)
    /\ E2' = Filled(im1, FltMax)
    /\ UNCHANGED <<im1, im2, dMin, dMax, radius, comb, tol, paramD, cost,
                   disp1, disp2, pc, xs, ds, W1, weights2, heap, built,
                   MainVars>>

NextCost == CostLayerStep \/ CostDone

SpecCost == InitCost /\ [][NextCost]_vars

-----------------------------------------------------------------------------
(* Occlusion filter (left/right consistency), after section 4.G of the     *)
(* specification; main calls it with the sentinel dMin-1.                  *)

detect_occlusion(d1, d2, occ, t) ==
    [y \in DOMAIN d1 |-> [x \in DOMAIN d1[y] |->
        LET d == d1[y][x]
            xq == x + d
        IN IF d = occ THEN occ
           ELSE IF xq < 0 \/ xq >= Width(d1) THEN occ
           ELSE LET dq == -d2[y][xq]
                IN IF dq = occ \/ Abs(d - dq) > t THEN occ ELSE d]]

\* digit k of code in base b
DigitIn(code, b, k) == (code \div (b ^ k)) % b

\* the filter on arbitrary maps: D1 holds disparities of [lo,hi] or the
\* sentinel lo-1, D2 holds their negatives or the sentinel
InitOcc ==
    \E s \in ShapeIds, code \in 0..MaxOccCode, t \in 0..MaxTol,
       lo \in -MaxDisp..MaxDisp, hi \in -MaxDisp..MaxDisp :
        LET w == Shapes[s][1]
            h == Shapes[s][2]
            b == hi - lo + 2
            v1(k) == lo - 1 + DigitIn(code, b, 2 * k)
            v2(k) == LET d == lo - 1 + DigitIn(code, b, 2 * k + 1)
                     IN IF d = lo - 1 THEN d ELSE -d
        IN /\ lo <= hi
           /\ im1 = UniformImage(w, h, 0)
           /\ im2 = UniformImage(w, h, 0)
           /\ dMin = lo
           /\ dMax = hi
           /\ radius = 0
           /\ comb = "MULT"
           /\ tol = t
           /\ paramD = DefaultParam
           /\ stage = "occlusion"
           /\ cost = <<>>
           /\ E1 = <<>>
           /\ E2 = <<>>
           /\ disp1 = [y \in 0..h-1 |-> [x \in 0..w-1 |-> v1(y * w + x)]]
           /\ disp2 = [y \in 0..h-1 |-> [x \in 0..w-1 |-> v2(y * w + x)]]
           /\ pc = [y \in 0..h-1 |-> "done"]
           /\ xs = [y \in 0..h-1 |-> 0]
           /\ ds = [y \in 0..h-1 |-> lo]
           /\ W1 = [y \in 0..h-1 |-> <<>>]
           /\ weights2 = [y \in 0..h-1 |-> <<>>]
           /\ heap = [y \in 0..h-1 |-> 0]
           /\ built = [y \in 0..h-1 |-> <<>>]
           /\ MainIdle
           /\ ElsewhereIdle

\* faulty variant of DetectOcclusion: dMin is passed as the sentinel
DetectOcclusion_WrongSentinel ==
    /\ stage \in {"occlusion", "filtered"}
    /\ disp1' = detect_occlusion(disp1, disp2, dMin, tol)
    /\ stage' = IF stage = "occlusion" THEN "filtered" ELSE "refiltered"
    /\ UNCHANGED <<im1, im2, dMin, dMax, radius, comb, tol, paramD, cost,
                   E1, E2, disp2, pc, xs, ds, W1, weights2, heap, built,
                   MainVars>>

\* faulty variant of DetectOcclusion: disp1 is passed for both maps
DetectOcclusion_SameMap ==
    /\ stage \in {"occlusion", "filtered"}
    /\ disp1' = detect_occlusion(disp1, disp1, dMin - 1, tol)
    /\ stage' = IF stage = "occlusion" THEN "filtered" ELSE "refiltered"
    /\ UNCHANGED <<im1, im2, dMin, dMax, radius, comb, tol, paramD, cost,
                   E1, E2, disp2, pc, xs, ds, W1, weights2, heap, built,
                   MainVars>>

\* the call of the filter, a first and then a second time
DetectOcclusion ==
    /\ stage \in {"occlusion", "filtered"}
    /\ disp1' = detect_occlusion(disp1, disp2, dMin - 1, tol)
    /\ stage' = IF stage = "occlusion" THEN "filtered" ELSE "refiltered"
    /\ UNCHANGED <<im1, im2, dMin, dMax, radius, comb, tol, paramD, cost,
                   E1, E2, disp2, pc, xs, ds, W1, weights2, heap, built,
                   MainVars>>

SpecOcc == InitOcc /\ [][DetectOcclusion]_vars

\* the aggregator on two images of one colour each
InitUniform ==
    \E s \in ShapeIds, c1 \in 0..MaxPix, c2 \in 0..MaxPix,
       lo \in -MaxDisp..MaxDisp, hi \in -MaxDisp..MaxDisp,
       r \in 0..MaxRadius, cb \in Combs :
        /\ lo <= hi
        /\ InitAW(UniformImage(Shapes[s][1], Shapes[s][2], c1),
                  UniformImage(Shapes[s][1], Shapes[s][2], c2),
                  lo, hi, r, cb, DefaultParam)

SpecUniform == InitUniform /\ [][Next]_vars

-----------------------------------------------------------------------------
(* Reference definitions: the aggregated cost and the winner-take-all      *)
(* result as functions of the inputs alone.                                *)

\* the candidates of the reference column x: the d with x+d in the image
Candidates(x) == {d \in dMin..dMax : 0 <= x + d /\ x + d < Width(im1)}

\* the support window of im around (xp,yp), computed on a fresh window
Window(im, xp, yp) == support(im, xp, yp, radius, NewWindow(radius))

\* E(x,y,d): costCombined on the supports of (x,y) in im1 and (x+d,y) in im2
Energy(x, y, d) ==
    costCombined(comb, x, x + d, y, radius, Window(im1, x, y),
                 Window(im2, x + d, y), cost[d], 0)

MinEnergy(x, y) ==
    CHOOSE e \in {Energy(x, y, d) : d \in Candidates(x)} :
        \A d \in Candidates(x) : e <= Energy(x, y, d)

\* the smallest candidate that reaches the minimum
ArgMinEnergy(x, y) ==
    CHOOSE d \in Candidates(x) :
        /\ Energy(x, y, d) = MinEnergy(x, y)
        /\ \A d2 \in Candidates(x) : Energy(x, y, d2) = MinEnergy(x, y) => d <= d2

-----------------------------------------------------------------------------
\* C1: every pixel of D1 holds a disparity of [dMin,dMax] or the sentinel
\* dMin-1, at every moment of the aggregation and hence after it.
C1_DisparityRange ==
    \A y \in Rows : \A x \in Cols : disp1[y][x] \in (dMin - 1)..dMax

\* the aggregator has run, some pixel kept the sentinel and another one
\* took the largest disparity of a range of several
C1_Witness ==
    /\ AllDone
    /\ dMin < dMax
    /\ \E y \in Rows : \E x \in Cols : disp1[y][x] = dMin - 1
    /\ \E y \in Rows : \E x \in Cols : disp1[y][x] = dMax

\* C2: at every reference pixel with a candidate, E1 is the minimum of the
\* aggregated cost E(x,y,d) over the candidates and D1 is the smallest
\* candidate reaching it.
C2_WtaMinimum ==
    AllDone =>
        \A y \in Rows : \A x \in Cols :
            Candidates(x) # {} =>
                /\ E1[y][x] = MinEnergy(x, y)
                /\ disp1[y][x] = ArgMinEnergy(x, y)

\* an image of one colour
Uniform(im) == \A y \in DOMAIN im : \A x \in DOMAIN im[y] : im[y][x] = im[0][0]

\* D1 = dMin at every pixel of the valid region 0 <= x+dMin < W
ValidRegionAtDMin ==
    \A y \in Rows : \A x \in Cols :
        (0 <= x + dMin /\ x + dMin < Width(im1)) => disp1[y][x] = dMin

\* C3: for two uniform images of the same colour and dMin < dMax, the
\* aggregator outputs D1 = dMin on the valid region, for every radius and
\* every operator.
C3_UniformSameColour ==
    (AllDone /\ dMin < dMax /\ Uniform(im1) /\ Uniform(im2)
        /\ im1[0][0] = im2[0][0]) => ValidRegionAtDMin

\* a finished run on two images of the same colour, with a disparity range
\* on both sides of 0, a window larger than a pixel and an operator that
\* reads the ring; a pixel of the valid region and a pixel outside it
C3_Witness ==
    /\ AllDone
    /\ Uniform(im1) /\ Uniform(im2) /\ im1[0][0] = im2[0][0]
    /\ dMin < 0 /\ 0 < dMax /\ radius > 0 /\ comb # "LEFT"
    /\ \E y \in Rows : \E x \in Cols :
          0 <= x + dMin /\ disp1[y][x] = dMin /\ Candidates(x) # {dMin}
    /\ \E y \in Rows : \E x \in Cols :
          x + dMin < 0 /\ disp1[y][x] # dMin

\* C3 as stated: for two uniform images, of any two colours, and
\* dMin < dMax, the aggregator outputs D1 = dMin on the valid region.
C3_UniformAnyColours ==
    (AllDone /\ dMin < dMax /\ Uniform(im1) /\ Uniform(im2))
        => ValidRegionAtDMin

\* C4: when dMin = dMax, D1 = dMin at every pixel with 0 <= x+dMin < W and
\* the sentinel elsewhere; D2 = -dMin at every target pixel x+dMin reached
\* from such an x and the sentinel elsewhere.
C4_SingleDisparity ==
    (AllDone /\ dMin = dMax) =>
        \A y \in Rows : \A x \in Cols :
            /\ disp1[y][x] = IF 0 <= x + dMin /\ x + dMin < Width(im1)
                             THEN dMin ELSE dMin - 1
            /\ disp2[y][x] = IF 0 <= x - dMin /\ x - dMin < Width(im1)
                             THEN -dMin ELSE dMin - 1

\* a finished run with one nonzero disparity, a window larger than a pixel
\* and an operator that reads the ring; both maps hold both values
C4_Witness ==
    /\ AllDone
    /\ dMin = dMax /\ dMin # 0 /\ radius > 0 /\ comb # "LEFT"
    /\ \E y \in Rows : \E x \in Cols : disp1[y][x] = dMin
    /\ \E y \in Rows : \E x \in Cols : disp1[y][x] = dMin - 1
    /\ \E y \in Rows : \E x \in Cols : disp2[y][x] = -dMin
    /\ \E y \in Rows : \E x \in Cols : disp2[y][x] = dMin - 1

\* winner-take-all over the raw cost volume
MinRawCost(x, y) ==
    CHOOSE e \in {cost[d][y][x] : d \in Candidates(x)} :
        \A d \in Candidates(x) : e <= cost[d][y][x]

ArgMinRawCost(x, y) ==
    CHOOSE d \in Candidates(x) :
        /\ cost[d][y][x] = MinRawCost(x, y)
        /\ \A d2 \in Candidates(x) : cost[d2][y][x] = MinRawCost(x, y) => d <= d2

\* C5: when radius = 0, E1 is the minimum of the raw cost over the
\* candidates and D1 is the smallest candidate reaching it, for each of the
\* five operators.
C5_RadiusZero ==
    (AllDone /\ radius = 0) =>
        \A y \in Rows : \A x \in Cols :
            Candidates(x) # {} =>
                /\ E1[y][x] = MinRawCost(x, y)
                /\ disp1[y][x] = ArgMinRawCost(x, y)

\* C6: for every valid parameter set, every value of every cost layer lies
\* in [0, (1-alpha)*tauCol + alpha*tauGrad] and equals the upper bound at
\* every pixel whose x+d is outside the image.
C6_CostBounds ==
    \A d \in DOMAIN cost : \A y \in Rows : \A x \in Cols :
        /\ 0 <= cost[d][y][x]
        /\ cost[d][y][x] <= costMax(paramD)
        /\ (x + d < 0 \/ x + d >= Width(im1)) => cost[d][y][x] = costMax(paramD)

\* a complete cost volume with a pixel strictly inside the bounds, a pixel
\* at the upper bound inside the image, and a pixel outside the image
C6_Witness ==
    /\ stage = "cost"
    /\ DOMAIN cost = dMin..dMax
    /\ 0 < paramD.alpha /\ paramD.alpha < One
    /\ \E d \in DOMAIN cost : \E y \in Rows : \E x \in Cols :
        0 < cost[d][y][x] /\ cost[d][y][x] < costMax(paramD)
    /\ \E d \in DOMAIN cost : \E y \in Rows : \E x \in Cols :
        /\ 0 <= x + d /\ x + d < Width(im1)
        /\ cost[d][y][x] = costMax(paramD) /\ costMax(paramD) > 0
    /\ \E d \in DOMAIN cost : \E x \in Cols : x + d < 0 \/ x + d >= Width(im1)

-----------------------------------------------------------------------------
(* The result of the LEFT aggregator as a function of im1, dMin, dMax,     *)
(* radius and a cost volume c alone: neither im2 nor the ring is read.     *)

\* the sum of f over the set S
RECURSIVE SumOver(_, _)
SumOver(f, S) ==
    IF S = {} THEN 0
    ELSE LET s == CHOOSE s \in S : TRUE IN f[s] + SumOver(f, S \ {s})

\* the offsets (i,j) of the window of (x,y) whose pixel is in the image and
\* has a match at disparity d in the image
Offsets(x, y, d) ==
    {o \in (-radius..radius) \X (-radius..radius) :
        /\ 0 <= y + o[2] /\ y + o[2] < Height(im1)
        /\ 0 <= x + o[1] /\ x + o[1] < Width(im1)
        /\ 0 <= x + d + o[1] /\ x + d + o[1] < Width(im1)}

\* the average of the costs c[d] over the window of (x,y), weighted by
\* the support of (x,y) in im1 and the spatial kernel alone
LeftEnergy(c, x, y, d) ==
    LET w1 == Window(im1, x, y)
        S == Offsets(x, y, d)
        wt == [o \in S |->
                  RoundMul(distP(o[1], o[2]), w1[o[2] + radius][o[1] + radius])]
        wc == [o \in S |-> RoundMul(wt[o], c[d][y + o[2]][x + o[1]])]
    IN RoundDiv(SumOver(wc, S), SumOver(wt, S))

\* candidates reach the reference pixel (x,y) in ascending d
LeftD1(c, x, y) ==
    IF Candidates(x) = {} THEN dMin - 1
    ELSE CHOOSE d \in Candidates(x) :
            \A d2 \in Candidates(x) :
                /\ LeftEnergy(c, x, y, d) <= LeftEnergy(c, x, y, d2)
                /\ LeftEnergy(c, x, y, d) = LeftEnergy(c, x, y, d2) => d <= d2

\* the d whose reference pixel xq-d matches the target pixel xq
TargetCandidates(xq) ==
    {d \in dMin..dMax : 0 <= xq - d /\ xq - d < Width(im1)}

\* candidates reach the target pixel (xq,y) in ascending x, descending d
LeftD2(c, xq, y) ==
    IF TargetCandidates(xq) = {} THEN dMin - 1
    ELSE LET d == CHOOSE d \in TargetCandidates(xq) :
                    \A d2 \in TargetCandidates(xq) :
                        /\ LeftEnergy(c, xq - d, y, d)
                               <= LeftEnergy(c, xq - d2, y, d2)
                        /\ LeftEnergy(c, xq - d, y, d)
                               = LeftEnergy(c, xq - d2, y, d2) => d >= d2
         IN -d

\* C7: with LEFT no target support is built (every ring window stays as
\* allocated) and D1 and D2 are the function of im1 and the cost volume
\* that reads neither im2 nor the ring.
C7_LeftIgnoresTarget ==
    comb = "LEFT" =>
        /\ \A y \in Rows :
              pc[y] \in {"col", "cand"} =>
                  weights2[y] = [s \in {0} |-> NewWindow(radius)]
        /\ AllDone =>
              \A y \in Rows : \A x \in Cols :
                  /\ disp1[y][x] = LeftD1(cost, x, y)
                  /\ disp2[y][x] = LeftD2(cost, x, y)

\* a finished LEFT run over several disparities with a window larger than
\* a pixel, on a target image of two colours, the storage of the ring
\* holding nonzero values, both maps with an assigned pixel
C7_Witness ==
    /\ AllDone
    /\ comb = "LEFT" /\ dMin < dMax /\ radius > 0
    /\ ~Uniform(im2)
    /\ \E y \in Rows : \E x \in Cols : disp1[y][x] > dMin
    /\ \E y \in Rows : \E x \in Cols : disp2[y][x] # dMin - 1

\* the images of the shape of im1
Images == [Rows -> [Cols -> 0..MaxPix]]

\* C8: with LEFT and a fixed im1, the aggregator run on any target image
\* of the same shape whose cost volume equals that of im2 yields the same
\* D1.
C8_SameCostVolume ==
    (AllDone /\ comb = "LEFT") =>
        \A i2 \in Images :
            LET c == costVolume(im1, i2, dMin, dMax, paramD)
            IN c = cost =>
                \A y \in Rows : \A x \in Cols : disp1[y][x] = LeftD1(c, x, y)

\* a finished LEFT run with an assigned pixel, and another target image
\* with the same cost volume
C8_Witness ==
    /\ AllDone
    /\ comb = "LEFT"
    /\ \E y \in Rows : \E x \in Cols : disp1[y][x] # dMin - 1
    /\ \E i2 \in Images :
          i2 # im2 /\ costVolume(im1, i2, dMin, dMax, paramD) = cost

\* C8 as stated: with LEFT and a fixed im1, the aggregator run on any
\* target image of the same shape, cost volume construction included,
\* yields the same D1.
C8_AnyTarget ==
    (AllDone /\ comb = "LEFT") =>
        \A i2 \in Images :
            LET c == costVolume(im1, i2, dMin, dMax, paramD)
            IN \A y \in Rows : \A x \in Cols : disp1[y][x] = LeftD1(c, x, y)

\* C9: after the occlusion filter has run with tolerance tol, every pixel
\* of D1 other than the sentinel dMin-1 has 0 <= x+D1(x,y) < W and
\* |D1(x,y) - (-D2(x+D1(x,y),y))| <= tol.
C9_FilterPostcondition ==
    stage \in {"filtered", "refiltered"} =>
        \A y \in DOMAIN disp1 : \A x \in DOMAIN disp1[y] :
            disp1[y][x] # dMin - 1 =>
                /\ 0 <= x + disp1[y][x]
                /\ x + disp1[y][x] < Width(disp1)
                /\ Abs(disp1[y][x] + disp2[y][x + disp1[y][x]]) <= tol

\* the filter has run once with a positive tolerance; one pixel is kept
\* with a nonzero disparity that differs from the target's, another pixel
\* is occluded
C9_Witness ==
    /\ stage = "filtered"
    /\ tol > 0
    /\ \E y \in DOMAIN disp1 : \E x \in DOMAIN disp1[y] :
          /\ disp1[y][x] \notin {dMin - 1, 0}
          /\ disp1[y][x] # -disp2[y][x + disp1[y][x]]
    /\ \E y \in DOMAIN disp1 : \E x \in DOMAIN disp1[y] :
          disp1[y][x] = dMin - 1

\* C10: a second application of the filter, with the same D2, sentinel and
\* tolerance, leaves D1 as the first application produced it.
C10_FilterIdempotent ==
    [][(stage = "filtered" /\ stage' = "refiltered") => disp1' = disp1]_vars

\* the filter has run twice; a pixel is kept and a pixel is occluded
C10_Witness ==
    /\ stage = "refiltered"
    /\ \E y \in DOMAIN disp1 : \E x \in DOMAIN disp1[y] :
          disp1[y][x] # dMin - 1
    /\ \E y \in DOMAIN disp1 : \E x \in DOMAIN disp1[y] :
          disp1[y][x] = dMin - 1 /\ disp2[y][x] # dMin - 1

-----------------------------------------------------------------------------
(* main (src/main.cpp:258-347): validation of the command line, the        *)
(* aggregation, the three outputs and the post-processing.                 *)

MaxMainShape == 1  \* main runs on the first MaxMainShape entries of Shapes
MaxMainCode == 3   \* main runs on the image pairs 0..MaxMainCode
MaxMainDisp == 1   \* integers on the command line: -MaxMainDisp..MaxMainDisp
MaxSense == 2      \* option -O takes the values 0..MaxSense

\* a float that is not a number, in a disparity map or in a file
NaNDisp == 1000001
is_number(v) == v # NaNDisp

\* the pixels handed to io_tiff_write_f32 by save_disparity
save_disparity_KeepAll(disp, lo, hi) == disp
save_disparity(disp, lo, hi) ==
    [y \in DOMAIN disp |-> [x \in DOMAIN disp[y] |->
        LET v == disp[y][x]
        IN IF ~(is_number(v) /\ lo <= v /\ v <= hi) THEN NaNDisp ELSE v]]

\* names of the output files: prefix + SUFFIX1, SUFFIX2, SUFFIX3
SUFFIX1 == ".tif"
SUFFIX2 == "_occ.tif"
SUFFIX3 == "_pp.tif"

\* The arguments dmin and dmax as typed.  kind "int" is a decimal integer,
\* "sign" a lone + or -, "empty" the empty string, "junk" a word without a
\* leading number, "trail" an integer followed by other characters.
ArgTokens ==
    [kind : {"int", "trail"}, val : -MaxMainDisp..MaxMainDisp]
    \cup [kind : {"empty", "sign", "junk"}, val : {0}]

\* (std::istringstream(arg) >> v).eof(): the extraction stops at the end of
\* the string exactly when nothing follows the digits, and also when there
\* are no digits at all before the end
ParseEof(tok) == tok.kind \in {"int", "empty", "sign"}

\* the values v can hold after the extraction: the number read, 0 after a
\* failed conversion, and whatever the variable held when the stream was
\* at its end before anything was read
ParseValues(tok) ==
    CASE tok.kind \in {"int", "trail"} -> {tok.val}
      [] tok.kind \in {"sign", "junk"} -> {0}
      [] tok.kind = "empty" -> -MaxMainDisp..MaxMainDisp

MainShapeIds == 1..Min2(MaxMainShape, Len(Shapes) - 1)

\* main entered with the options parsed (cmd.process) and both images loaded
InitMain ==
    \E s \in MainShapeIds, code \in 0..MaxMainCode, mismatch \in BOOLEAN,
       a3 \in ArgTokens, a4 \in ArgTokens, o \in 0..MaxSense :
        LET s2 == IF mismatch THEN s + 1 ELSE s
        IN /\ im1 = ImageOf(code, Shapes[s][1], Shapes[s][2], 1)
           /\ im2 = ImageOf(code, Shapes[s2][1], Shapes[s2][2], 0)
           /\ argv = <<a3, a4>>
           /\ cmd = <<>>
           /\ sense = o
           /\ dMin = 0
           /\ dMax = 0
           /\ radius = MaxRadius
           /\ comb = "MULT"
           /\ tol = 0
           /\ paramD = DefaultParam
           /\ stage = "args"
           /\ cost = <<>>
           /\ E1 = <<>>
           /\ E2 = <<>>
           /\ disp1 = <<>>
           /\ disp2 = <<>>
           /\ dispDense = <<>>
           /\ files = <<>>
           /\ exitCode = 0
           /\ ElsewhereIdle
           /\ pc = [y \in DOMAIN im1 |-> "start"]
           /\ xs = [y \in DOMAIN im1 |-> 0]
           /\ ds = [y \in DOMAIN im1 |-> 0]
           /\ W1 = [y \in DOMAIN im1 |-> <<>>]
           /\ weights2 = [y \in DOMAIN im1 |-> <<>>]
           /\ heap = [y \in DOMAIN im1 |-> 0]
           /\ built = [y \in DOMAIN im1 |-> <<>>]

\* what no step of main after the aggregation changes
Aggregation == <<im1, im2, dMin, dMax, radius, comb, tol, paramD, cost, E1, E2,
                 disp2, pc, xs, ds, W1, weights2, heap, built, argv, cmd, sense,
                 Elsewhere>>

SameSize == Width(im1) = Width(im2) /\ Height(im1) = Height(im2)

\* "return 1" of the checks of the two images and of dmin, dmax
Reject ==
    /\ stage = "args"
    /\ \/ ~SameSize
       \/ ~(ParseEof(argv[1]) /\ ParseEof(argv[2]))
       \/ \E lo \in ParseValues(argv[1]), hi \in ParseValues(argv[2]) : lo > hi
    /\ stage' = "exit"
    /\ exitCode' = 1
    /\ UNCHANGED <<Aggregation, disp1, dispDense, files>>

\* the checks pass: disp1 and disp2 are created and disparityAW is entered
Accept ==
    /\ stage = "args"
    /\ SameSize
    /\ ParseEof(argv[1]) /\ ParseEof(argv[2])
    /\ \E lo \in ParseValues(argv[1]), hi \in ParseValues(argv[2]) :
          /\ lo <= hi
          /\ dMin' = lo
          /\ dMax' = hi
          /\ disp1' = Filled(im1, lo - 1)
          /\ disp2' = Filled(im1, lo - 1)
          /\ ds' = [y \in DOMAIN im1 |-> lo]
    /\ stage' = "cost"
    /\ UNCHANGED <<im1, im2, radius, comb, tol, paramD, cost, E1, E2, pc, xs,
                   W1, weights2, heap, built, MainVars>>

\* save_disparity succeeds: the file named by suffix holds the staged map
Save(suffix, from, to) ==
    /\ stage = from
    /\ AllDone
    /\ files' = Append(files, <<suffix, save_disparity(disp1, dMin, dMax)>>)
    /\ stage' = to
    /\ UNCHANGED <<Aggregation, disp1, dispDense, exitCode>>

SaveInitial == Save(SUFFIX1, "aggregate", "occlusion")
SaveOccluded == Save(SUFFIX2, "filtered", "switch")
SaveDense == Save(SUFFIX3, "dense", "exit")

\* save_disparity fails (io_tiff_write_f32 reports an error): return 1
WriteError ==
    /\ stage \in {"aggregate", "filtered", "dense"}
    /\ AllDone
    /\ stage' = "exit"
    /\ exitCode' = 1
    /\ UNCHANGED <<Aggregation, disp1, dispDense, files>>

\* the one call of the occlusion filter in main
DetectOnce == stage = "occlusion" /\ DetectOcclusion

-----------------------------------------------------------------------------
(* Post-processing, after sections 4.H and 4.I of the specification        *)
(* (filters.cpp and occlusion.cpp).                                        *)

MaxMedianRadius == 1   \* ParamOcclusion median_radius

SetMax(S) == CHOOSE m \in S : \A k \in S : k <= m
SetMin(S) == CHOOSE m \in S : \A k \in S : m <= k

\* Image::fillX: every pixel below vMin takes the value of the nearest
\* pixel of its row that is not below vMin; between two such pixels the
\* choice is made by useMax; a row without any takes vMin
fillX(im, vMin, useMax) ==
    [y \in DOMAIN im |-> [x \in DOMAIN im[y] |->
        LET row == im[y]
            lefts == {k \in DOMAIN row : k < x /\ row[k] >= vMin}
            rights == {k \in DOMAIN row : k > x /\ row[k] >= vMin}
        IN IF row[x] >= vMin THEN row[x]
           ELSE IF lefts = {} /\ rights = {} THEN vMin
           ELSE IF lefts = {} THEN row[SetMin(rights)]
           ELSE IF rights = {} THEN row[SetMax(lefts)]
           ELSE IF useMax
                THEN Max2(row[SetMax(lefts)], row[SetMin(rights)])
                ELSE Min2(row[SetMax(lefts)], row[SetMin(rights)])]]

fillMaxX(im, vMin) == fillX(im, vMin, TRUE)
fillMinX(im, vMin) == fillX(im, vMin, FALSE)

\* exp(-n) in fixed point: halved with every unit of n, zero in the end
ExpNeg(n) == One \div (2 ^ n)

\* the samples of the window of (x,y): positions inside the image whose
\* value in dense is a disparity of [vMin,vMax]
MedianSamples(dense, x, y, vMin, vMax, r) ==
    {p \in (-r..r) \X (-r..r) :
        /\ y + p[2] \in DOMAIN dense
        /\ x + p[1] \in DOMAIN dense[y]
        /\ is_number(dense[y + p[2]][x + p[1]])
        /\ vMin <= dense[y + p[2]][x + p[1]]
        /\ dense[y + p[2]][x + p[1]] <= vMax}

\* spatial weight times range weight of the sample at offset p
MedianWeight(guidance, x, y, p) ==
    RoundMul(ExpNeg(p[1] * p[1] + p[2] * p[2]),
             ExpNeg(Abs(guidance[y + p[2]][x + p[1]] - guidance[y][x])))

\* Image::weightedMedian: where the map "where" is below vMin (occluded),
\* the weighted median of the samples; elsewhere, and where no sample has
\* weight, the value of dense
weightedMedian(dense, guidance, where, vMin, vMax, r) ==
    [y \in DOMAIN dense |-> [x \in DOMAIN dense[y] |->
        LET S == MedianSamples(dense, x, y, vMin, vMax, r)
            hist == [b \in vMin..vMax |->
                       SumOver([p \in S |-> MedianWeight(guidance, x, y, p)],
                               {p \in S : dense[y + p[2]][x + p[1]] = b})]
            total == SumOver(hist, vMin..vMax)
            cum(b) == SumOver(hist, vMin..b)
        IN IF where[y][x] >= vMin THEN dense[y][x]
           ELSE IF total = 0 THEN dense[y][x]
           ELSE SetMin({b \in vMin..vMax : 2 * cum(b) >= total})]]

\* switch(sense), cases 0 and 1: dispDense is a clone of disp1, filled
MonotoneFill ==
    /\ stage = "switch"
    /\ sense \in {0, 1}
    /\ dispDense' = IF sense = 0 THEN fillMaxX(disp1, dMin)
                    ELSE fillMinX(disp1, dMin)
    /\ stage' = "filled"
    /\ UNCHANGED <<Aggregation, disp1, files, exitCode>>

\* faulty variant of NoDensification: any other value of -O is refused
NoDensification_Fatal ==
    /\ stage = "switch"
    /\ sense \notin {0, 1}
    /\ stage' = "exit"
    /\ exitCode' = 1
    /\ UNCHANGED <<Aggregation, disp1, dispDense, files>>

\* faulty variant of NoDensification: the default case does not return
NoDensification_FallThrough ==
    /\ stage = "switch"
    /\ sense \notin {0, 1}
    /\ dispDense' = disp1
    /\ stage' = "filled"
    /\ UNCHANGED <<Aggregation, disp1, files, exitCode>>

\* switch(sense), default: return 0
NoDensification ==
    /\ stage = "switch"
    /\ sense \notin {0, 1}
    /\ stage' = "exit"
    /\ exitCode' = 0
    /\ UNCHANGED <<Aggregation, disp1, dispDense, files>>

\* faulty variant of FillOcclusion: disp2 is passed as the map of occlusions
FillOcclusion_MaskFromD2 ==
    /\ stage = "filled"
    /\ disp1' = weightedMedian(dispDense, im1, disp2, dMin, dMax,
                               MaxMedianRadius)
    /\ stage' = "dense"
    /\ UNCHANGED <<Aggregation, dispDense, files, exitCode>>

\* fill_occlusion: disp1 receives the weighted median of dispDense
FillOcclusion ==
    /\ stage = "filled"
    /\ disp1' = weightedMedian(dispDense, im1, disp1, dMin, dMax,
                               MaxMedianRadius)
    /\ stage' = "dense"
    /\ UNCHANGED <<Aggregation, dispDense, files, exitCode>>

NextMain ==
    \/ Reject
    \/ Accept
    \/ CostLayerStep
    \/ CostDone
    \/ Next
    \/ SaveInitial
    \/ WriteError
    \/ DetectOnce
    \/ SaveOccluded
    \/ MonotoneFill
    \/ NoDensification
    \/ FillOcclusion
    \/ SaveDense

SpecMain == InitMain /\ [][NextMain]_vars

\* main entered with two images of one size and two integers dmin, dmax
InitFair ==
    /\ InitMain
    /\ SameSize
    /\ argv[1].kind = "int"
    /\ argv[2].kind = "int"

\* main is one sequential program: it takes its next step as long as it has
\* one (the rows are run one after the other)
FairMain == InitFair /\ [][NextMain]_vars /\ WF_vars(NextMain)

\* a map of w x h values of lo-extra..hi+extra or NaN (digit 0), coded by
\* code in base hi-lo+2*extra+2
MapOf(code, w, h, lo, hi, extra) ==
    [y \in 0..h-1 |-> [x \in 0..w-1 |->
        LET g == DigitIn(code, hi - lo + 2 * extra + 2, y * w + x)
        IN IF g = 0 THEN NaNDisp ELSE lo - extra - 1 + g]]

MaxSaveCode == 215 \* maps given to save_disparity: numerals 0..MaxSaveCode

\* save_disparity alone, on maps that hold numbers of dMin-2..dMax+2 and NaN
InitSave ==
    \E s \in ShapeIds, code \in 0..MaxSaveCode,
       lo \in -MaxDisp..MaxDisp, hi \in -MaxDisp..MaxDisp :
        LET w == Shapes[s][1]
            h == Shapes[s][2]
        IN /\ lo <= hi
           /\ im1 = UniformImage(w, h, 0)
           /\ im2 = UniformImage(w, h, 0)
           /\ dMin = lo
           /\ dMax = hi
           /\ radius = 0
           /\ comb = "MULT"
           /\ tol = 0
           /\ paramD = DefaultParam
           /\ stage = "aggregate"
           /\ cost = <<>>
           /\ E1 = <<>>
           /\ E2 = <<>>
           /\ disp1 = MapOf(code, w, h, lo, hi, 2)
           /\ disp2 = Filled(im1, lo - 1)
           /\ pc = [y \in 0..h-1 |-> "done"]
           /\ xs = [y \in 0..h-1 |-> 0]
           /\ ds = [y \in 0..h-1 |-> lo]
           /\ W1 = [y \in 0..h-1 |-> <<>>]
           /\ weights2 = [y \in 0..h-1 |-> <<>>]
           /\ heap = [y \in 0..h-1 |-> 0]
           /\ built = [y \in 0..h-1 |-> <<>>]
           /\ MainIdle
           /\ ElsewhereIdle

SpecSave == InitSave /\ [][SaveInitial]_vars

MaxDenseShape == 1  \* the densifier runs on entries 5..4+MaxDenseShape of Shapes
MaxDenseCode == 80  \* maps given to the densifier: numerals 0..MaxDenseCode
MaxGuideCode == 1   \* guidance images: numerals 0..MaxGuideCode

\* the post-processing alone: disp1 is any map of disparities of [lo,hi] and
\* sentinels lo-1, as the occlusion filter leaves it, and has been saved;
\* -O is 0 or 1
InitDense ==
    \E s \in 5..Min2(4 + MaxDenseShape, Len(Shapes)),
       code \in 0..MaxDenseCode, g \in 0..MaxGuideCode,
       lo \in -MaxDisp..MaxDisp, hi \in -MaxDisp..MaxDisp, o \in {0, 1} :
        LET w == Shapes[s][1]
            h == Shapes[s][2]
        IN /\ lo <= hi
           /\ im1 = [y \in 0..h-1 |-> [x \in 0..w-1 |-> Digit(g, y * w + x)]]
           /\ im2 = UniformImage(w, h, 0)
           /\ dMin = lo
           /\ dMax = hi
           /\ radius = 0
           /\ comb = "MULT"
           /\ tol = 0
           /\ paramD = DefaultParam
           /\ stage = "switch"
           /\ cost = <<>>
           /\ E1 = <<>>
           /\ E2 = <<>>
           /\ disp1 = [y \in 0..h-1 |-> [x \in 0..w-1 |->
                         lo - 1 + DigitIn(code, hi - lo + 2, y * w + x)]]
           /\ disp2 = Filled(im1, lo - 1)
           /\ pc = [y \in 0..h-1 |-> "done"]
           /\ xs = [y \in 0..h-1 |-> 0]
           /\ ds = [y \in 0..h-1 |-> lo]
           /\ W1 = [y \in 0..h-1 |-> <<>>]
           /\ weights2 = [y \in 0..h-1 |-> <<>>]
           /\ heap = [y \in 0..h-1 |-> 0]
           /\ built = [y \in 0..h-1 |-> <<>>]
           /\ argv = <<>>
           /\ cmd = <<>>
           /\ sense = o
           /\ dispDense = <<>>
           /\ files = <<<<SUFFIX2, save_disparity(disp1, lo, hi)>>>>
           /\ exitCode = 0
           /\ ElsewhereIdle

SpecDense == InitDense /\ [][MonotoneFill \/ FillOcclusion]_vars

-----------------------------------------------------------------------------
(* Claims on the post-processing and on main *)

\* C11: the densifier called by main changes occluded pixels only: at every
\* pixel whose D1 value is not the sentinel dMin-1, the map it returns holds
\* the value of dispDense, which is the D1 value.
C11_DensifyFrame ==
    [][(stage = "filled" /\ stage' = "dense") =>
        \A y \in DOMAIN disp1 : \A x \in DOMAIN disp1[y] :
            disp1[y][x] # dMin - 1 =>
                /\ disp1'[y][x] = dispDense[y][x]
                /\ disp1'[y][x] = disp1[y][x]]_vars

\* the densifier has run on a map with a pixel that was not occluded (a
\* number in the saved map) and gave an occluded pixel a value that differs
\* from the fill's
C11_Witness ==
    /\ stage = "dense"
    /\ \E y \in DOMAIN disp1 : \E x \in DOMAIN disp1[y] :
          is_number(files[Len(files)][2][y][x])
    /\ \E y \in DOMAIN disp1 : \E x \in DOMAIN disp1[y] :
          /\ ~is_number(files[Len(files)][2][y][x])
          /\ disp1[y][x] # dispDense[y][x]

\* C12: save_disparity writes a pixel as it is when it is a number of
\* [dMin,dMax] and writes NaN for any other pixel (NaN, below dMin, above
\* dMax); the map in memory is left as it was.
C12_SaveDisparity ==
    [][files' # files =>
        /\ disp1' = disp1
        /\ \A y \in DOMAIN disp1 : \A x \in DOMAIN disp1[y] :
              LET v == disp1[y][x]
                  out == files'[Len(files')][2][y][x]
              IN IF v # NaNDisp /\ dMin <= v /\ v <= dMax
                 THEN out = v
                 ELSE out = NaNDisp]_vars

\* a map with a disparity of the range, the sentinel dMin-1 and a value
\* above dMax has been saved
C12_Witness ==
    /\ files # <<>>
    /\ \E y \in DOMAIN disp1 : \E x1, x2, x3 \in DOMAIN disp1[y] :
          /\ dMin <= disp1[y][x1] /\ disp1[y][x1] <= dMax
          /\ files[1][2][y][x1] = disp1[y][x1]
          /\ disp1[y][x2] = dMin - 1
          /\ files[1][2][y][x2] = NaNDisp
          /\ disp1[y][x3] > dMax /\ disp1[y][x3] # NaNDisp
          /\ files[1][2][y][x3] = NaNDisp

\* the names of the files written so far, in the order of writing
FileNames == [k \in DOMAIN files |-> files[k][1]]

\* C13 as stated: a run with -O other than 0 or 1 ends with exit code 1.
C13_SenseIsFatal ==
    (stage = "exit" /\ sense \notin {0, 1}) => exitCode = 1

\* C13, amended: a run with -O other than 0 or 1 ends with exit code 0 once
\* the first two files are written; it ends with exit code 1 only before
\* that, on the checks of the command line or on a failed write.
C13_SenseNotAnError ==
    (stage = "exit" /\ sense \notin {0, 1}) =>
        IF FileNames = <<SUFFIX1, SUFFIX2>> THEN exitCode = 0
        ELSE exitCode = 1 /\ Len(files) < 2

\* a run with -O 2 has ended with exit code 0 and two files
C13_Witness ==
    /\ stage = "exit"
    /\ sense \notin {0, 1}
    /\ exitCode = 0
    /\ Len(files) = 2

\* the command line main must refuse: images of different sizes, dmin or
\* dmax that is not an integer, or dmin > dmax
BadCommandLine ==
    \/ ~SameSize
    \/ argv[1].kind # "int"
    \/ argv[2].kind # "int"
    \/ argv[1].val > argv[2].val

\* C14 as stated: on such a command line main ends with exit code 1 before
\* disparityAW is entered and before any file is written.
C14_RejectedBeforeAggregation ==
    (argv # <<>> /\ BadCommandLine) =>
        /\ stage \in {"args", "exit"}
        /\ files = <<>>
        /\ stage = "exit" => exitCode = 1

-----------------------------------------------------------------------------
(* The Image class (src/image.cpp:25-73, image.h): handles that share a    *)
(* pixel array and a counter.  A buffer is the pair of "new int" and       *)
(* "new float[]" of one constructor call; buffer 0 is the null pointer.    *)

MaxHandles == 3     \* Image objects 1..MaxHandles
MaxBuffers == 2     \* allocations 1..MaxBuffers
MaxImageWidth == 1  \* images of width 1..MaxImageWidth (height 1, 1 channel)

HandleIds == 1..MaxHandles
BufIds == 1..MaxBuffers

\* an object that is not constructed, or is destructed
Dead == [live |-> FALSE, buf |-> 0, dims |-> <<0, 0, 0>>]
\* storage that was never allocated
NoBuffer == [count |-> 0, frees |-> 0, pix |-> <<>>]

\* the number of objects whose count and tab point to buffer b
Refs(b) ==
    Cardinality({h \in HandleIds : handles[h].live /\ handles[h].buf = b})

\* the pixels read through object h; the model follows pixel (0,0) only
ReadPixels(h) == bufs[handles[h].buf].pix

\* disparityAW is not part of the run
NoAggregation ==
    /\ im1 = UniformImage(2, 1, 0)
    /\ im2 = UniformImage(2, 1, 0)
    /\ dMin = 0
    /\ dMax = 0
    /\ radius = 0
    /\ comb = "MULT"
    /\ tol = 0
    /\ paramD = DefaultParam
    /\ cost = <<>>
    /\ E1 = <<>>
    /\ E2 = <<>>
    /\ disp1 = <<>>
    /\ disp2 = <<>>
    /\ pc = <<>>
    /\ xs = <<>>
    /\ ds = <<>>
    /\ W1 = <<>>
    /\ weights2 = <<>>
    /\ heap = <<>>
    /\ built = <<>>

InitImage ==
    /\ handles = [h \in HandleIds |-> Dead]
    /\ bufs = [b \in BufIds |-> NoBuffer]
    /\ last = [op |-> "none", dst |-> 1, src |-> 1]
    /\ tif = <<>>
    /\ png = <<>>
    /\ stage = "image"
    /\ NoAggregation
    /\ MainIdle

\* what the operations on Image objects leave alone
NotImage == <<im1, im2, dMin, dMax, radius, comb, tol, paramD, stage, cost, E1,
              E2, disp1, disp2, pc, xs, ds, W1, weights2, heap, built, argv, cmd, sense,
              dispDense, files, exitCode, tif, png>>

\* Image::kill on the counter of buffer b: if(count && --*count == 0)
\* { delete count; delete [] tab; }
kill(bb, b) ==
    IF b = 0 THEN bb
    ELSE IF bb[b].count - 1 = 0
    THEN [bb EXCEPT ![b] = [count |-> 0, frees |-> @.frees + 1, pix |-> <<>>]]
    ELSE [bb EXCEPT ![b].count = @ - 1]

\* if(count) ++*count
share(bb, b) == IF b = 0 THEN bb ELSE [bb EXCEPT ![b].count = @ + 1]

\* Image::Image(): count(0), tab(0)
DefaultConstruct(h) ==
    /\ handles[h] = Dead
    /\ handles' = [handles EXCEPT ![h] = [live |-> TRUE, buf |-> 0,
                                          dims |-> <<0, 0, 0>>]]
    /\ last' = [op |-> "default", dst |-> h, src |-> h]
    /\ UNCHANGED <<bufs, NotImage>>

\* Image::Image(int,int,int): count(new int(1)), tab(new float[w*h*c]); the
\* pixels are whatever the storage held
Construct(h) ==
    /\ handles[h] = Dead
    /\ \E b \in BufIds, w \in 1..MaxImageWidth, g \in Garbage :
          /\ bufs[b] = NoBuffer
          /\ \A b2 \in BufIds : b2 < b => bufs[b2] # NoBuffer
          /\ bufs' = [bufs EXCEPT ![b] = [count |-> 1, frees |-> 0,
                                          pix |-> <<g>>]]
          /\ handles' = [handles EXCEPT ![h] = [live |-> TRUE, buf |-> b,
                                                dims |-> <<w, 1, 1>>]]
    /\ last' = [op |-> "new", dst |-> h, src |-> h]
    /\ UNCHANGED NotImage

\* Image::Image(const Image& I): object h is built as a copy of object a
CopyConstruct(h, a) ==
    /\ handles[h] = Dead
    /\ handles[a].live
    /\ handles' = [handles EXCEPT ![h] = handles[a]]
    /\ bufs' = share(bufs, handles[a].buf)
    /\ last' = [op |-> "copy", dst |-> h, src |-> a]
    /\ UNCHANGED NotImage

\* faulty variant of Assign: no test that the two counters differ
Assign_NoGuard(h, a) ==
    /\ handles[h].live
    /\ handles[a].live
    /\ bufs' = share(kill(bufs, handles[h].buf), handles[a].buf)
    /\ handles' = [handles EXCEPT ![h] = handles[a]]
    /\ last' = [op |-> "assign", dst |-> h, src |-> a]
    /\ UNCHANGED NotImage

\* Image::operator=: h = a, also with h and a the same object
Assign(h, a) ==
    /\ handles[h].live
    /\ handles[a].live
    /\ bufs' = IF handles[h].buf # handles[a].buf
               THEN share(kill(bufs, handles[h].buf), handles[a].buf)
               ELSE bufs
    /\ handles' = [handles EXCEPT ![h] = handles[a]]
    /\ last' = [op |-> "assign", dst |-> h, src |-> a]
    /\ UNCHANGED NotImage

\* faulty variant of Clone: a shallow copy is returned
Clone_Shallow(h, a) ==
    /\ handles[h] = Dead
    /\ handles[a].live
    /\ handles[a].buf # 0
    /\ \E b \in BufIds : bufs[b] = NoBuffer
    /\ handles' = [handles EXCEPT ![h] = handles[a]]
    /\ bufs' = share(bufs, handles[a].buf)
    /\ last' = [op |-> "clone", dst |-> h, src |-> a]
    /\ UNCHANGED NotImage

\* Image h = a.clone(): Image I(w,h,c), std::copy of the pixels, return I
\* (the local I is moved or copied into h and destructed: one owner)
Clone(h, a) ==
    /\ handles[h] = Dead
    /\ handles[a].live
    /\ handles[a].buf # 0
    /\ \E b \in BufIds :
          /\ bufs[b] = NoBuffer
          /\ \A b2 \in BufIds : b2 < b => bufs[b2] # NoBuffer
          /\ bufs' = [bufs EXCEPT ![b] = [count |-> 1, frees |-> 0,
                                          pix |-> ReadPixels(a)]]
          /\ handles' = [handles EXCEPT ![h] = [live |-> TRUE, buf |-> b,
                                                dims |-> handles[a].dims]]
    /\ last' = [op |-> "clone", dst |-> h, src |-> a]
    /\ UNCHANGED NotImage

\* Image::~Image() { kill(); }
Destroy(h) ==
    /\ handles[h].live
    /\ bufs' = kill(bufs, handles[h].buf)
    /\ handles' = [handles EXCEPT ![h] = Dead]
    /\ last' = [op |-> "destroy", dst |-> h, src |-> h]
    /\ UNCHANGED NotImage

\* float& Image::operator()(i,j,d) = v: a write through object h
WritePixel(h) ==
    /\ handles[h].live
    /\ handles[h].buf # 0
    /\ \E v \in Garbage :
          bufs' = [bufs EXCEPT ![handles[h].buf].pix = <<v>>]
    /\ last' = [op |-> "write", dst |-> h, src |-> h]
    /\ UNCHANGED <<handles, NotImage>>

NextImage ==
    \E h \in HandleIds :
        \/ DefaultConstruct(h)
        \/ Construct(h)
        \/ Destroy(h)
        \/ WritePixel(h)
        \/ \E a \in HandleIds :
              \/ CopyConstruct(h, a)
              \/ Assign(h, a)
              \/ Clone(h, a)

SpecImage == InitImage /\ [][NextImage]_vars

\* C15: the counter of a buffer is the number of live objects that refer to
\* it; a buffer is released once, in the step (a destruction or an
\* assignment) that takes its last object away, not before and not twice; no
\* live object refers to a released buffer.
C15_SharedCounter ==
    /\ [](\A b \in BufIds :
            /\ bufs[b].frees <= 1
            /\ bufs[b] = NoBuffer => Refs(b) = 0
            /\ bufs[b].frees = 1 => Refs(b) = 0 /\ bufs[b].count = 0
            /\ (bufs[b] # NoBuffer /\ bufs[b].frees = 0) =>
                  bufs[b].count = Refs(b) /\ Refs(b) >= 1)
    /\ [][\A b \in BufIds :
            bufs'[b].frees # bufs[b].frees =>
                /\ Refs(b) = 1
                /\ Refs(b)' = 0
                /\ last'.op \in {"destroy", "assign"}]_vars

\* an object was just assigned to itself while it shares its buffer with
\* another object, and another buffer has been released
C15_Witness ==
    /\ stage = "image"
    /\ last.op = "assign"
    /\ last.dst = last.src
    /\ handles[last.dst].buf # 0
    /\ bufs[handles[last.dst].buf].count = 2
    /\ \E b \in BufIds : bufs[b].frees = 1

\* objects h and a share their pixels
Shares(h, a) ==
    /\ handles[h].live /\ handles[a].live
    /\ handles[h].buf = handles[a].buf
    /\ handles[h].buf # 0

\* C16: after a copy construction or an assignment the two objects share
\* their pixels, and a write through one object is read through every
\* object that shares with it and through no other; a clone has the size
\* and the pixel values of its source and shares with nothing.
C16_ShareAndClone ==
    /\ []((last.op \in {"copy", "assign"} /\ handles[last.src].buf # 0) =>
            /\ Shares(last.dst, last.src)
            /\ handles[last.dst].dims = handles[last.src].dims)
    /\ [](last.op = "clone" =>
            /\ handles[last.dst].dims = handles[last.src].dims
            /\ ReadPixels(last.dst) = ReadPixels(last.src)
            /\ \A k \in HandleIds \ {last.dst} : ~Shares(k, last.dst))
    /\ [][last'.op = "write" =>
            \A k \in HandleIds :
                (handles[k].live /\ handles[k].buf # 0) =>
                    IF Shares(k, last'.dst)
                    THEN bufs'[handles[k].buf].pix =
                             bufs'[handles[last'.dst].buf].pix
                    ELSE bufs'[handles[k].buf].pix = ReadPixels(k)]_vars

\* a pixel was just written through an object that shares its buffer with
\* a second object, while a third object holds a clone with the old pixels
C16_Witness ==
    /\ stage = "image"
    /\ last.op = "write"
    /\ \E k, c \in HandleIds :
          /\ k # last.dst
          /\ Shares(k, last.dst)
          /\ handles[c].live /\ handles[c].buf # 0
          /\ ~Shares(c, k)
          /\ handles[c].dims = handles[k].dims
          /\ ReadPixels(c) # ReadPixels(k)

-----------------------------------------------------------------------------
(* tiff2png (src/unnamed/part_003:30-97): float image to 8-bit colour.     *)
(* The arithmetic of the gray level is exact here; the program computes    *)
(* a and b in floats.                                                      *)

MaxPngCode == 63   \* input images of tiff2png: numerals 0..MaxPngCode

\* values given to the options -m and -M
GrayOptions == {0, 7, 255, 300}

\* results of static_cast<unsigned char> applied to a NaN
CastOfNaN == {0, 128, 255}

CYAN == <<0, 255, 255>>

\* tiff2png entered, vMin and vMax read with vMax >= vMin, the image loaded
InitPng ==
    \E code \in 0..MaxPngCode, gm \in GrayOptions, gM \in GrayOptions,
       lo \in -MaxDisp..MaxDisp, hi \in -MaxDisp..MaxDisp :
        /\ lo <= hi
        /\ tif = [pix |-> MapOf(code, 2, 1, lo, hi, 1)[0], vMin |-> lo,
                  vMax |-> hi, grayMin |-> gm, grayMax |-> gM]
        /\ png = <<>>
        /\ handles = <<>>
        /\ bufs = <<>>
        /\ last = <<>>
        /\ stage = "tiff2png"
        /\ NoAggregation
        /\ MainIdle

\* the gray level of a pixel v of [vMin,vMax]: a*v+b+0.5 cut to 0..255 and
\* truncated.  With vMax = vMin, a and b are quotients by zero, a*v+b is
\* NaN, both tests fail and the cast of NaN is undefined: the level is u
GrayLevel(v, t, u) ==
    IF t.vMax = t.vMin THEN u
    ELSE LET den == t.vMax - t.vMin
             num == (t.grayMax - t.grayMin) * v
                    + (t.grayMin * t.vMax - t.grayMax * t.vMin)
         IN IF 2 * num + den < 0 THEN 0
            ELSE Min2(255, (2 * num + den) \div (2 * den))

\* the loop over the pixels and io_png_write_u8
Convert ==
    /\ stage = "tiff2png"
    /\ \E u \in CastOfNaN :
          png' = [k \in DOMAIN tif.pix |->
                    LET v == tif.pix[k]
                    IN IF is_number(v) /\ tif.vMin <= v /\ v <= tif.vMax
                       THEN LET g == GrayLevel(v, tif, u) IN <<g, g, g>>
                       ELSE CYAN]
    /\ stage' = "exit"
    /\ UNCHANGED <<im1, im2, dMin, dMax, radius, comb, tol, paramD, cost, E1,
                   E2, disp1, disp2, pc, xs, ds, W1, weights2, heap, built, argv, cmd,
                   sense, dispDense, files, exitCode, handles, bufs, last,
                   tif>>

SpecPng == InitPng /\ [][Convert]_vars

\* the level the affine map through (vMin,grayMin) and (vMax,grayMax) gives
\* to v, rounded to the nearest integer and cut to 0..255
AffineGray(v, t) ==
    LET den == t.vMax - t.vMin
        twice == 2 * t.grayMin * den + 2 * (t.grayMax - t.grayMin) * (v - t.vMin)
        level == IF den = 0 THEN t.grayMin ELSE (twice + den) \div (2 * den)
    IN Max2(0, Min2(255, level))

\* C19 as stated: a pixel is cyan exactly when it is NaN or outside
\* [vMin,vMax]; any other pixel is gray, with the level the affine map
\* through (vMin,grayMin) and (vMax,grayMax) gives it, within 0..255.
C19_CyanOrAffineGray ==
    png # <<>> =>
        \A k \in DOMAIN png :
            LET v == tif.pix[k]
                valid == is_number(v) /\ tif.vMin <= v /\ v <= tif.vMax
            IN /\ png[k] = CYAN <=> ~valid
               /\ valid =>
                    /\ png[k][1] = png[k][2] /\ png[k][2] = png[k][3]
                    /\ png[k][1] \in 0..255
                    /\ png[k][1] = AffineGray(v, tif)
                    /\ v = tif.vMax => png[k][1] = Max2(0, Min2(255, tif.grayMax))

-----------------------------------------------------------------------------
(* disparityAW under "#pragma omp parallel for" (src/disparity.cpp:419-457): *)
(* one worker per row, their steps interleaved in any order.                 *)

MaxParCode == 7    \* image pairs of the parallel runs: numerals 0..MaxParCode
MaxParDisp == 1    \* dMin, dMax in -MaxParDisp..MaxParDisp

\* two rows, so that two workers exist
ParShape == Shapes[3]
\* one operator with the ring of nd windows and the one without it
ParCombs == {"LEFT", "MULT"}

InitPar ==
    \E code \in 0..MaxParCode,
       lo \in -MaxParDisp..MaxParDisp, hi \in -MaxParDisp..MaxParDisp,
       cb \in ParCombs :
        /\ lo <= hi
        /\ InitAW(ImageOf(code, ParShape[1], ParShape[2], 1),
                  ImageOf(code, ParShape[1], ParShape[2], 0),
                  lo, hi, MaxRadius, cb, DefaultParam)

\* any worker takes its next step
NextPar ==
    \E y \in Rows :
        \/ RowStart(y)
        \/ ColStart(y)
        \/ CandEval(y)
        \/ CandSkip(y)

SpecPar == InitPar /\ [][NextPar]_vars

\* the step is a step of the worker of row y
Stepper(y) == <<pc[y], xs[y], ds[y]>>' # <<pc[y], xs[y], ds[y]>>

\* map M with every row but y overwritten
Blank(M, y) ==
    [y2 \in DOMAIN M |-> IF y2 = y THEN M[y2] ELSE [x \in DOMAIN M[y2] |-> NaN]]

\* C17: a step changes row y of D1, E1, D2 or E2 only if it is a step of the
\* worker of row y and of no other worker, so no cell is written by two
\* workers; and what a worker stores in its row is what it would store if
\* every other row of the four images held something else, so it reads no
\* cell written by another worker.
C17_RowPartition ==
    /\ [][\A y \in Rows :
            (E1'[y] # E1[y] \/ disp1'[y] # disp1[y]
                \/ E2'[y] # E2[y] \/ disp2'[y] # disp2[y])
            => /\ Stepper(y)
               /\ \A y2 \in Rows \ {y} : ~Stepper(y2)]_vars
    /\ [][\A y \in Rows :
            Stepper(y) /\ pc[y] = "cand"
                /\ 0 <= xs[y] + ds[y] /\ xs[y] + ds[y] < Width(im1)
            => LET x == xs[y]
                   d == ds[y]
                   E == costCombined(comb, x, x + d, y, radius, W1[y],
                                     weights2[y][slot(x + d)], cost[d], heap[y])
               IN /\ E1'[y] = WtaE(Blank(E1, y), x, y, E)[y]
                  /\ disp1'[y] = WtaD(Blank(E1, y), Blank(disp1, y), x, y, E, d)[y]
                  /\ E2'[y] = WtaE(Blank(E2, y), x + d, y, E)[y]
                  /\ disp2'[y] =
                        WtaD(Blank(E2, y), Blank(disp2, y), x + d, y, E, -d)[y]]_vars

\* two workers are both inside their rows and both have stored results
C17_Witness ==
    /\ stage = "aggregate"
    /\ \E y \in Rows, y2 \in Rows :
        /\ y # y2
        /\ pc[y] = "cand" /\ pc[y2] = "cand"
        /\ xs[y] > 0 /\ xs[y2] > 0
        /\ disp1[y][0] # dMin - 1 /\ disp1[y2][0] # dMin - 1
        /\ \E x \in Cols : disp2[y][x] # dMin - 1
        /\ \E x \in Cols : disp2[y2][x] # dMin - 1

\* the target window that the candidate of centre (c,y) is given: the support
\* of centre c once the column loop has built it, before that the slot as the
\* pre-fill left it
RingWindow(c, y) ==
    IF comb = "LEFT" THEN NewWindow(radius)
    ELSE IF c - dMax >= 0 THEN Window(im2, c, y)
    ELSE prefill(im2, y, radius, nd)[c - dMin]

\* the energy of candidate (x,y,d) when the storage of the windows held g
RowEnergy(x, y, d, g) ==
    costCombined(comb, x, x + d, y, radius, Window(im1, x, y),
                 RingWindow(x + d, y), cost[d], g)

\* candidates whose energy replaces some stored energy
Winners(S, e) == {d \in S : e[d] # NaN /\ e[d] < FltMax}

\* D1 after rows 0..H-1 in order, row y having found hp[y] in its storage
SeqD1(hp) ==
    [y \in Rows |-> [x \in Cols |->
        LET e == [d \in Candidates(x) |-> RowEnergy(x, y, d, hp[y])]
            V == Winners(Candidates(x), e)
        IN IF V = {} THEN dMin - 1
           ELSE CHOOSE d \in V :
                   \A d2 \in V : e[d] < e[d2] \/ (e[d] = e[d2] /\ d <= d2)]]

\* D2 after rows 0..H-1 in order: column c is reached from x = c - d, in
\* ascending x
SeqD2(hp) ==
    [y \in Rows |-> [c \in Cols |->
        LET S == {d \in dMin..dMax : 0 <= c - d /\ c - d < Width(im1)}
            e == [d \in S |-> RowEnergy(c - d, y, d, hp[y])]
            V == Winners(S, e)
        IN IF V = {} THEN dMin - 1
           ELSE -(CHOOSE d \in V :
                     \A d2 \in V : e[d] < e[d2] \/ (e[d] = e[d2] /\ d >= d2))]]

\* what the storage of the windows of each row may hold
Storage == [Rows -> Garbage]

\* every run ends with maps that the rows in order produce for some content
\* of the storage: the interleaving alone changes nothing
OutcomeOfStorage ==
    stage = "aggregate" /\ AllDone
        => \E hp \in Storage : disp1 = SeqD1(hp) /\ disp2 = SeqD2(hp)

\* C18: when all workers are done, D1 and D2 are the maps of the sequential
\* execution of rows 0..H-1 on the same inputs, whatever the workers found in
\* the storage they were given.
C18_SameAsSequential ==
    stage = "aggregate" /\ AllDone
        => \A hp \in Storage : disp1 = SeqD1(hp) /\ disp2 = SeqD2(hp)

-----------------------------------------------------------------------------
(* The ring of target windows (src/disparity.cpp:422-444)                   *)

\* the candidate that the worker of row y is about to evaluate
AtCandidate(y) ==
    /\ stage = "aggregate"
    /\ pc[y] = "cand"
    /\ 0 <= xs[y] + ds[y]
    /\ xs[y] + ds[y] < Width(im1)

\* the centre of the last support() call into slot s of row y, if any
Held(y, s) ==
    LET K == {k \in DOMAIN built[y] : built[y][k].slot = s}
    IN {built[y][k].centre : k \in {k \in K : \A k2 \in K : k2 <= k}}

\* C21: for an operator other than LEFT, when the candidate (x,y,d) with
\* 0 <= x+d < W is evaluated, the last support() call into the slot
\* (x+d-dMin) mod nd it reads was the one for target centre x+d.
C21_RingHoldsCentre ==
    \A y \in Rows :
        AtCandidate(y) /\ comb # "LEFT"
            => Held(y, slot(xs[y] + ds[y])) = {xs[y] + ds[y]}

\* C22: for an operator other than LEFT, pre-fill and column loop together
\* never call support() twice for the same target centre of a row, and once
\* the row is done every target centre that a candidate reached has been
\* built: each centre is built exactly once.
C22_BuiltOnce ==
    \A y \in Rows :
        stage = "aggregate" /\ comb # "LEFT" =>
            \* the support() calls made for target centre c in row y
            LET CallsFor(c) == {k \in DOMAIN built[y] : built[y][k].centre = c}
            IN /\ \A k \in DOMAIN built[y] :
                     Cardinality(CallsFor(built[y][k].centre)) = 1
               /\ pc[y] = "done" =>
                     \A c \in Cols :
                         (\E x \in Cols : c - x \in dMin..dMax)
                             => Cardinality(CallsFor(c)) = 1

\* the window offsets (i,j) whose pixel, for centre (c,y), is not in the image
Outside(c, y) ==
    {p \in (0..(2 * radius)) \X (0..(2 * radius)) :
        ~(/\ 0 <= c + p[1] - radius /\ c + p[1] - radius < Width(im1)
          /\ 0 <= y + p[2] - radius /\ y + p[2] - radius < Height(im1))}

\* C23: once support() has filled the reference window for centre (x,y) and,
\* for an operator other than LEFT, the target window for centre (x+dMax,y),
\* every entry of these windows whose pixel lies outside the image reads 0,
\* whether the window is fresh or was used for an earlier centre.
C23_OutsideIsZero ==
    \A y \in Rows :
        stage = "aggregate" /\ pc[y] = "cand" =>
            /\ \A p \in Outside(xs[y], y) :
                  Read(W1[y][p[2]][p[1]], heap[y]) = 0
            /\ comb # "LEFT" =>
                  \A p \in Outside(xs[y] + dMax, y) :
                      Read(weights2[y][slot(xs[y] + dMax)][p[2]][p[1]],
                           heap[y]) = 0

-----------------------------------------------------------------------------
(* The aggregated cost of the final and of the earlier version of support  *)
(* and costCombined (src/disparity.cpp:342-376 and 113-148), in exact      *)
(* arithmetic: both decay factors are 1/2 per unit and every weight is an  *)
(* integer multiple of a common unit, so that num/den is an exact fraction. *)

\* distC[k] = exp(-k/(c*gammaCol)), in units of 2^-MaxPix
ColourWeight(im, xp, yp, x, y) == 2 ^ (MaxPix - Abs(im[yp+y][xp+x] - im[yp][xp]))

\* the earlier distP: exp(-rho/gammaPos), in units of its smallest entry
PosEarlier(x, y) ==
    2 ^ (CeilSqrt[2 * MaxRadius * MaxRadius] - CeilSqrt[x * x + y * y])

\* faulty variant of PosFinal: the table of the earlier version is kept
PosFinal_Unchanged(x, y) == PosEarlier(x, y)

\* the final distP: exp(-2*rho/gammaPos), the square of the earlier one
PosFinal(x, y) == PosEarlier(x, y) * PosEarlier(x, y)

\* COMB_WEIGHTS without rounding
CombExact(c, w1, w2) ==
    CASE c = "LEFT" -> w1
      [] c = "MAX"  -> Max2(w1, w2)
      [] c = "MIN"  -> Min2(w1, w2)
      [] c = "MULT" -> w1 * w2
      [] c = "PLUS" -> w1 + w2

\* the offsets summed by costCombined for the pair of centres (xp,yp), (xq,yp)
Summed(xp, xq, yp) ==
    {p \in (-radius..radius) \X (-radius..radius) :
        /\ 0 <= yp + p[2] /\ yp + p[2] < Height(im1)
        /\ 0 <= xp + p[1] /\ xp + p[1] < Width(im1)
        /\ 0 <= xq + p[1] /\ xq + p[1] < Width(im1)}

\* <<num, den>> of the final costCombined for candidate (x,y,d)
FinalFraction(x, y, d) ==
    LET S == Summed(x, x + d, y)
        cb == [p \in S |->
                 PosFinal(p[1], p[2])
                 * CombExact(comb, ColourWeight(im1, x, y, p[1], p[2]),
                             ColourWeight(im2, x + d, y, p[1], p[2]))]
    IN <<SumOver([p \in S |-> cb[p] * cost[d][y+p[2]][x+p[1]]], S),
         SumOver(cb, S)>>

\* <<num, den>> of the earlier costCombined on the earlier supports
EarlierFraction(x, y, d) ==
    LET S == Summed(x, x + d, y)
        cb == [p \in S |->
                 CombExact(comb,
                     ColourWeight(im1, x, y, p[1], p[2]) * PosEarlier(p[1], p[2]),
                     ColourWeight(im2, x + d, y, p[1], p[2]) * PosEarlier(p[1], p[2]))]
    IN <<SumOver([p \in S |-> cb[p] * cost[d][y+p[2]][x+p[1]]], S),
         SumOver(cb, S)>>

\* the two fractions of candidate (x,y,d) are the same number
SameFraction(x, y, d) ==
    FinalFraction(x, y, d)[1] * EarlierFraction(x, y, d)[2]
        = EarlierFraction(x, y, d)[1] * FinalFraction(x, y, d)[2]

-----------------------------------------------------------------------------
(* The winner-take-all updates (src/disparity.cpp:444-452)                  *)

\* C25: in every step of the aggregator and for every pixel (x,y), E1(x,y)
\* either keeps its value or is replaced by a strictly smaller number, and
\* D1(x,y) changes only in a step where E1(x,y) strictly decreases; the same
\* for E2 and D2.
C25_MonotoneWta ==
    [][\A y \in Rows : \A x \in Cols :
          /\ (E1[y][x]' # E1[y][x] \/ disp1[y][x]' # disp1[y][x])
                 => (E1[y][x]' # NaN /\ E1[y][x]' < E1[y][x])
          /\ (E2[y][x]' # E2[y][x] \/ disp2[y][x]' # disp2[y][x])
                 => (E2[y][x]' # NaN /\ E2[y][x]' < E2[y][x])]_vars

\* a pixel holds the energy of an earlier candidate and the candidate about
\* to be evaluated has a strictly smaller one, at both ends; another candidate
\* of the same pixel will follow
C25_Witness ==
    \E y \in Rows :
        /\ AtCandidate(y)
        /\ ds[y] < dMax
        /\ LET x == xs[y]
               d == ds[y]
               E == costCombined(comb, x, x + d, y, radius, W1[y],
                                 weights2[y][slot(x + d)], cost[d], heap[y])
           IN /\ E1[y][x] < FltMax /\ Gt(E1[y][x], E)
              /\ E2[y][x+d] < FltMax /\ Gt(E2[y][x+d], E)

\* C27: every support() call of the aggregator on the target image, in the
\* pre-fill and in the column loop, reads I2 only at pixels of the W x H
\* grid, the centre pixel included, for every dMin <= dMax.  support(im2,
\* c,y, ...) reads the centre pixel im2(c,y) whenever one pixel of its window
\* is in the image.
C27_ReadsInBounds ==
    \A y \in Rows :
        stage = "aggregate" =>
            \A k \in DOMAIN built[y] :
                LET c == built[y][k].centre
                IN (\E i \in -radius..radius : 0 <= c + i /\ c + i < Width(im2))
                       => (0 <= c /\ c < Width(im2))

\* C28: the energy of every evaluated candidate is a number (den > 0, the
\* centre offset being summed with weight 1), so at the end of the loop
\* D1(x,y) is the sentinel dMin-1 exactly where no d of the range has x+d in
\* the image.
C28_SentinelIffNoCandidate ==
    /\ \A y \in Rows :
           AtCandidate(y) =>
               costCombined(comb, xs[y], xs[y] + ds[y], y, radius, W1[y],
                            weights2[y][slot(xs[y] + ds[y])], cost[ds[y]],
                            heap[y]) # NaN
    /\ AllDone =>
           \A y \in Rows : \A x \in Cols :
               disp1[y][x] = dMin - 1 <=> Candidates(x) = {}


\* C29: every entry of W1 and of the ring window that costCombined reads for
\* the candidate (x,y,d) was written by the support call for the reference
\* centre (x,y), respectively by a call for the target centre (x+d,y) that
\* was the last one into that window; no read entry is as allocated or left
\* by another centre.
C29_ReadsWrittenEntries ==
    \A y \in Rows :
        AtCandidate(y) =>
            LET x == xs[y]
                c == xs[y] + ds[y]
            IN /\ Held(y, slot(c)) = {c}
               /\ \A p \in Summed(x, c, y) :
                     /\ W1[y][p[2] + radius][p[1] + radius]
                            = support(im1, x, y, radius,
                                      NewWindow(radius))[p[2] + radius][p[1] + radius]
                     /\ weights2[y][slot(c)][p[2] + radius][p[1] + radius]
                            \notin {Uninit, Junk}


\* C30: when the loop is done, for every target pixel (x',y) reached by a
\* candidate, E2(x',y) is the minimum of E(x'-d, y, d) over the d of the
\* range with x'-d in the image and D2(x',y) = -d for the largest d reaching
\* it; hence E2(x+D1(x,y), y) <= E1(x,y) wherever D1 is valid.
C30_TargetWtaMinimum ==
    AllDone =>
        \A y \in Rows : \A xq \in Cols :
            /\ TargetCandidates(xq) # {} =>
                   \E d \in TargetCandidates(xq) :
                       /\ E2[y][xq] = Energy(xq - d, y, d)
                       /\ disp2[y][xq] = -d
                       /\ \A d2 \in TargetCandidates(xq) :
                              /\ Energy(xq - d, y, d) <= Energy(xq - d2, y, d2)
                              /\ Energy(xq - d, y, d) = Energy(xq - d2, y, d2)
                                     => d >= d2
            /\ disp1[y][xq] >= dMin =>
                   E2[y][xq + disp1[y][xq]] <= E1[y][xq]


-----------------------------------------------------------------------------
(* CmdLine::process (src/cmdLine.h:228-261) on the options of main.  An     *)
(* argument is a string; cmd.argv[j+1] is argv[j] of the program.           *)

MaxArgs == 4       \* arguments after the program name: 0..MaxArgs

\* two of the options main registers: make_option('R', paramD.radius) and
\* make_option(0, paramD.gammaCol, "gcol"); "@" stands for the letter 0,
\* a character that no argument contains
Options == <<[c |-> "R", longName |-> ""], [c |-> "@", longName |-> "gcol"]>>

\* OptionField<T>::check(argc, argv) with argc = n and argv = a: the number
\* arg of arguments the option takes (0: not found), or the exception.
\* read_param of a number: str >> _field succeeds and no character is left.
check(o, n, a) ==
    LET read_param(param) ==
            LET body == IF Len(param) > 0 /\ SubSeq(param, 1, 1) = "-"
                        THEN SubSeq(param, 2, Len(param)) ELSE param
            IN /\ Len(body) > 0
               /\ \A k \in 1..Len(body) :
                      SubSeq(body, k, k)
                          \in {"0", "1", "2", "3", "4", "5", "6", "7", "8",
                               "9"}
        short == "-" \o o.c
        long == "--" \o o.longName
        Starts(pre) == Len(pre) <= Len(a[1]) /\ SubSeq(a[1], 1, Len(pre)) = pre
        exact == a[1] = short \/ (o.longName # "" /\ a[1] = long)
        arg == IF exact THEN 2
               ELSE IF Starts(short) THEN 1
               ELSE IF o.longName # "" /\ Starts(long \o "=") THEN 1
               ELSE 0
        param == IF exact THEN a[2]
                 ELSE IF Starts(short) THEN SubSeq(a[1], 3, Len(a[1]))
                 ELSE SubSeq(a[1], Len(long) + 2, Len(a[1]))
    IN IF exact /\ n <= 1 THEN [arg |-> 0, thrown |-> TRUE]
       ELSE IF arg > 0 /\ ~read_param(param) THEN [arg |-> 0, thrown |-> TRUE]
       ELSE [arg |-> arg, thrown |-> FALSE]

\* faulty variant of Rotate: the removed arguments stay in front
Rotate_Keep(av, i, k, argc) == av

\* std::rotate(argv+i, argv+i+k, argv+argc)
Rotate(av, i, k, argc) ==
    SubSeq(av, 1, i) \o SubSeq(av, i + k + 1, argc) \o SubSeq(av, i + 1, i + k)
        \o SubSeq(av, argc + 1, Len(av))

\* process entered on a command line of at most MaxArgs arguments, each an
\* option, an option with its value, a value, "--", a negative number, an
\* unknown option or a file name; the used flags are reset (lines 229-231)
InitCmd ==
    \E n \in 0..MaxArgs :
      \E w \in [1..n -> {"-R", "-R3", "--gcol", "--gcol=3", "--", "-15", "-x",
                         "a", "3"}] :
        /\ cmd = [given |-> <<"prog">> \o w, argv |-> <<"prog">> \o w,
                  argc |-> n + 1, i |-> 1, used |-> {}]
        /\ stage = "options"
        /\ argv = <<>>
        /\ sense = 0
        /\ dispDense = <<>>
        /\ files = <<>>
        /\ exitCode = 0
        /\ NoAggregation
        /\ ElsewhereIdle

\* one pass of the loop of lines 232-257
ProcessStep ==
    /\ stage = "options"
    /\ cmd.i < cmd.argc
    /\ LET i == cmd.i
           n == cmd.argc - i
           a == SubSeq(cmd.argv, i + 1, cmd.argc)
           hits == {k \in DOMAIN Options :
                       LET r == check(Options[k], n, a)
                       IN r.arg > 0 \/ r.thrown}
           first == CHOOSE k \in hits : \A k2 \in hits : k <= k2
           eof == /\ \A k \in 2..Len(a[1]) :
                        SubSeq(a[1], k, k)
                            \in {"0", "1", "2", "3", "4", "5", "6", "7", "8",
                                 "9", "."}
                  /\ Cardinality({k \in 2..Len(a[1]) :
                                     SubSeq(a[1], k, k) = "."}) <= 1
       IN IF a[1] = "--"
          THEN /\ cmd' = [cmd EXCEPT !.argv = Rotate(@, i, 1, cmd.argc),
                                     !.argc = @ - 1]
               /\ stage' = "parsed"
          ELSE IF hits # {}
          THEN LET r == check(Options[first], n, a)
               IN IF r.thrown
                  THEN stage' = "thrown" /\ UNCHANGED cmd
                  ELSE /\ cmd' = [cmd EXCEPT
                                    !.argv = Rotate(@, i, r.arg, cmd.argc),
                                    !.argc = @ - r.arg,
                                    !.used = @ \cup {first}]
                       /\ UNCHANGED stage
          ELSE IF Len(a[1]) > 1 /\ SubSeq(a[1], 1, 1) = "-" /\ ~eof
          THEN stage' = "thrown" /\ UNCHANGED cmd
          ELSE cmd' = [cmd EXCEPT !.i = @ + 1] /\ UNCHANGED stage
    /\ UNCHANGED <<im1, im2, dMin, dMax, radius, comb, tol, paramD, cost, E1,
                   E2, disp1, disp2, pc, xs, ds, W1, weights2, heap, built,
                   argv, sense, dispDense, files, exitCode, Elsewhere>>

\* the loop ends with i = argc: stable_sort of the options, return
ProcessReturn ==
    /\ stage = "options"
    /\ cmd.i >= cmd.argc
    /\ stage' = "parsed"
    /\ UNCHANGED <<im1, im2, dMin, dMax, radius, comb, tol, paramD, cost, E1,
                   E2, disp1, disp2, pc, xs, ds, W1, weights2, heap, built,
                   argv, cmd, sense, dispDense, files, exitCode, Elsewhere>>

SpecCmd == InitCmd /\ [][ProcessStep \/ ProcessReturn]_vars

\* what a filter leaves of the arguments s and which options occur in them:
\* an option and its value are dropped, the first "--" is dropped and ends
\* the parsing, everything else is kept
RECURSIVE Filter(_)
Filter(s) ==
    IF s = <<>> THEN [kept |-> <<>>, used |-> {}]
    ELSE IF Head(s) = "--" THEN [kept |-> Tail(s), used |-> {}]
    ELSE LET hit == {k \in DOMAIN Options :
                        check(Options[k], Len(s), s).arg > 0}
         IN IF hit = {}
            THEN LET f == Filter(Tail(s))
                 IN [kept |-> <<Head(s)>> \o f.kept, used |-> f.used]
            ELSE LET k == CHOOSE k \in hit : TRUE
                     f == Filter(SubSeq(s, check(Options[k], Len(s), s).arg + 1,
                                        Len(s)))
                 IN [kept |-> f.kept, used |-> f.used \cup {k}]

\* C26: when process returns normally, argv[1..argc-1] is the sequence of the
\* arguments that are neither an option nor the value of one, in their
\* order, argc has decreased by the number of removed arguments, used holds
\* exactly the options that occurred, the first "--" is removed and what
\* follows it is kept, and an unmatched negative number such as -15 is kept.
C26_ProcessFilters ==
    stage = "parsed" =>
        LET f == Filter(Tail(cmd.given))
            left == SubSeq(cmd.argv, 2, cmd.argc)
            Count(s, w) == Cardinality({k \in DOMAIN s : s[k] = w})
        IN /\ left = f.kept
           /\ cmd.argc = Len(cmd.given) - (Len(cmd.given) - 1 - Len(f.kept))
           /\ cmd.used = f.used
           /\ Count(cmd.given, "--") > 0
                  => Count(left, "--") = Count(cmd.given, "--") - 1
           /\ (Count(cmd.given, "-R") = 0 /\ Count(cmd.given, "--gcol") = 0)
                  => Count(left, "-15") = Count(cmd.given, "-15")

\* process has returned from -R 3 -15 --: an option with its value, a
\* negative number and the end-of-options mark
C26_Witness ==
    /\ stage = "parsed"
    /\ Tail(cmd.given) = <<"-R", "3", "-15", "--">>
    /\ cmd.used = {1}
    /\ cmd.argc = 2
    /\ cmd.argv[2] = "-15"

====
